---- MODULE Spec2Model ----
(***************************************************************************)
(* A model of the GLOMAP plugin's readers and exporters (PoSDK,             *)
(* src/plugins/methods/GLOMAP): the pair-id codec, the blob decoding of the *)
(* COLMAP sqlite store, the pose resolution of the store-based exporters    *)
(* and the binary and text readers of a COLMAP model's images file.         *)
(*                                                                          *)
(* The program is single-threaded and batch-oriented.  A behaviour of the   *)
(* model is one pending call, drawn with its inputs in the initial state,   *)
(* followed by the steps of that call; `ret' holds what the call returned   *)
(* or raised.  Python integers are unbounded, so the codec arithmetic is    *)
(* exact; the modulus 2**31 - 1 is scaled to 2^IdWidth - 1 so that the      *)
(* products stay inside the model checker's integers.                       *)
(***************************************************************************)
EXTENDS Integers, Sequences, FiniteSets, TLC

VARIABLES
    call,       \* the call under way: its function and its inputs
    ret,        \* what the call has produced so far
    openConns   \* sqlite connections opened by a call and not closed

vars == <<call, ret, openConns>>

\* The result slot before any step of the call has run.
NoRet == [op |-> "none"]

\* A nullable value (a column of a row, a blob): SQL NULL / Python's None is
\* the empty tuple, a present value v is the one-tuple <<v>>.
Null == <<>>
Some(v) == <<v>>
IsNull(x) == x = <<>>
Val(x) == x[1]

(***************************************************************************)
(* Pair-id codec                                                           *)
(***************************************************************************)

\* Width in bits of the scaled image-id modulus (31 in the source).
IdWidth == 3

\* MAX_IMAGE_ID = 2**31 - 1 in the source.
MAX_IMAGE_ID == 2^IdWidth - 1

\* ColmapDatabaseLoader._image_ids_to_pair_id: swaps to ascending order and
\* packs; there is no range check and no failure path.
image_ids_to_pair_id(image_id1, image_id2) ==
    LET lo == IF image_id1 > image_id2 THEN image_id2 ELSE image_id1
        hi == IF image_id1 > image_id2 THEN image_id1 ELSE image_id2
    IN  lo * MAX_IMAGE_ID + hi

\* A variant that divides by 2**31 instead of 2**31 - 1.
loader_pair_id_to_image_ids_pow2(pair_id) ==
    LET image_id2 == pair_id % (MAX_IMAGE_ID + 1)
        image_id1 == (pair_id - image_id2) \div (MAX_IMAGE_ID + 1)
    IN  <<image_id1, image_id2>>

\* ColmapDatabaseLoader._pair_id_to_image_ids.  Python's % and // floor, as
\* do TLA+'s % and \div for a positive divisor.
loader_pair_id_to_image_ids(pair_id) ==
    LET image_id2 == pair_id % MAX_IMAGE_ID
        image_id1 == (pair_id - image_id2) \div MAX_IMAGE_ID
    IN  <<image_id1, image_id2>>

\* export_matches_from_db.pair_id_to_image_ids (a copy of the loader's).
pair_id_to_image_ids(pair_id) ==
    LET image_id2 == pair_id % MAX_IMAGE_ID
        image_id1 == (pair_id - image_id2) \div MAX_IMAGE_ID
    IN  <<image_id1, image_id2>>

\* Image ids offered to the codec: the valid range [0, MAX_IMAGE_ID) and the
\* values just outside it on both sides.
CodecIds == (0 - 1) .. (MAX_IMAGE_ID + 1)

InPairRange(id) == 0 <= id /\ id < MAX_IMAGE_ID

\* Pair keys offered for re-encoding: every key of two valid ids and the
\* keys next to them on both sides.
CodecKeys ==
    (0 - MAX_IMAGE_ID) .. (MAX_IMAGE_ID * MAX_IMAGE_ID + MAX_IMAGE_ID)

CodecCalls ==
    [fn : {"codec"}, image_id1 : CodecIds, image_id2 : CodecIds]
    \cup [fn : {"reencode"}, pair_id : CodecKeys]

InitCodec ==
    /\ call \in CodecCalls
    /\ ret = NoRet
    /\ openConns = 0

\* Step 1: the caller packs the two ids.
Encode ==
    /\ call.fn = "codec"
    /\ ret.op = "none"
    /\ ret' = [op |-> "encoded", status |-> "ok",
               pair_id |-> image_ids_to_pair_id(call.image_id1, call.image_id2)]
    /\ UNCHANGED <<call, openConns>>

\* Step 2: the key is unpacked by both decoders.
Decode ==
    /\ call.fn = "codec"
    /\ ret.op = "encoded"
    /\ ret' = [op |-> "decoded", status |-> "ok", pair_id |-> ret.pair_id,
               loader_ids |-> loader_pair_id_to_image_ids(ret.pair_id),
               export_ids |-> pair_id_to_image_ids(ret.pair_id)]
    /\ UNCHANGED <<call, openConns>>

\* Decoding a key and packing its two components again, once and twice.
reencode(pair_id) ==
    LET ids == loader_pair_id_to_image_ids(pair_id)
    IN  image_ids_to_pair_id(ids[1], ids[2])

Reencode ==
    /\ call.fn = "reencode"
    /\ ret.op = "none"
    /\ ret' = [op |-> "reencoded", status |-> "ok",
               ids |-> loader_pair_id_to_image_ids(call.pair_id),
               once |-> reencode(call.pair_id),
               twice |-> reencode(reencode(call.pair_id))]
    /\ UNCHANGED <<call, openConns>>

NextCodec == Encode \/ Decode \/ Reencode

SpecCodec == InitCodec /\ [][NextCodec]_vars

\* C1: for idLow <= idHigh, both in [0, MAX_IMAGE_ID), decoding the key that
\* _image_ids_to_pair_id produced gives back exactly (idLow, idHigh), with the
\* loader's decoder and with the match exporter's decoder.
C1_PairIdRoundTrip ==
    (/\ call.fn = "codec"
     /\ ret.op = "decoded"
     /\ InPairRange(call.image_id1) /\ InPairRange(call.image_id2)
     /\ call.image_id1 <= call.image_id2)
    => /\ ret.loader_ids = <<call.image_id1, call.image_id2>>
       /\ ret.export_ids = <<call.image_id1, call.image_id2>>

\* A round trip of a pair with two different ids, the larger one the largest
\* valid id.
C1_Witness ==
    /\ call.fn = "codec"
    /\ ret.op = "decoded"
    /\ call.image_id1 = 1
    /\ call.image_id2 = MAX_IMAGE_ID - 1
    /\ ret.loader_ids = <<1, MAX_IMAGE_ID - 1>>

\* The keys _image_ids_to_pair_id produces from two valid ids.
EncodedKeys ==
    { image_ids_to_pair_id(a, b) : a, b \in 0 .. (MAX_IMAGE_ID - 1) }

C7_EncodeRejectsOutOfRange ==
    (/\ call.fn = "codec"
     /\ ret.op = "encoded"
     /\ (~InPairRange(call.image_id1) \/ ~InPairRange(call.image_id2)))
    => ret.status = "raise"

(***************************************************************************)
(* Blob decoding                                                           *)
(***************************************************************************)

\* Item sizes in bytes of the numpy dtypes the readers pass to frombuffer.
FLOAT32_SIZE == 4
UINT8_SIZE == 1
UINT32_SIZE == 4
FLOAT64_SIZE == 8

\* What a function call produced: a value, Python's None, or an exception.
Raise(err) == [status |-> "raise", error |-> err]
Ok(v) == [status |-> "ok", value |-> v]
ReturnsNone == [status |-> "none"]

\* np.frombuffer(blob, dtype): the buffer cut into items of itemsize bytes,
\* each item kept as its byte pattern; ValueError when the buffer size is
\* not a multiple of the item size.
frombuffer(blob, itemsize) ==
    IF Len(blob) % itemsize # 0
    THEN Raise("ValueError")
    ELSE Ok([i \in 1 .. (Len(blob) \div itemsize) |->
                SubSeq(blob, (i - 1) * itemsize + 1, i * itemsize)])

\* ndarray.reshape(-1, cols): the items cut into rows of cols items; the
\* row count is inferred from the size, ValueError when it cannot be.
reshape(items, cols) ==
    IF cols <= 0 \/ Len(items) % cols # 0
    THEN Raise("ValueError")
    ELSE Ok([r \in 1 .. (Len(items) \div cols) |->
                SubSeq(items, (r - 1) * cols + 1, r * cols)])

\* A variant that drops a trailing partial row instead of failing.
blob_to_array_lenient(blob, itemsize, cols) ==
    IF IsNull(blob) THEN ReturnsNone
    ELSE IF cols <= 0 THEN Raise("ValueError")
    ELSE LET n == Len(Val(blob)) \div (itemsize * cols)
             whole == SubSeq(Val(blob), 1, n * itemsize * cols)
         IN  reshape(frombuffer(whole, itemsize).value, cols)

\* export_matches_from_db.blob_to_array with shape (-1, cols).
blob_to_array(blob, itemsize, cols) ==
    IF IsNull(blob) THEN ReturnsNone
    ELSE LET flat == frombuffer(Val(blob), itemsize)
         IN  IF flat.status = "raise" THEN flat
             ELSE reshape(flat.value, cols)

\* ColmapDatabaseLoader._blob_to_array with shape (-1, cols): np.fromstring
\* in binary mode cuts the buffer as np.frombuffer does and copies it.
loader_blob_to_array(blob, itemsize, cols) ==
    IF IsNull(blob) THEN ReturnsNone
    ELSE LET flat == frombuffer(Val(blob), itemsize)
         IN  IF flat.status = "raise" THEN flat
             ELSE reshape(flat.value, cols)

\* The unsigned little-endian value of an item.
RECURSIVE LittleEndian(_)
LittleEndian(item) ==
    IF Len(item) = 0 THEN 0
    ELSE Head(item) + 256 * LittleEndian(Tail(item))

\* Longest blob offered to the decoders on their own, in bytes.
MaxBlobLen == 25

\* Most columns a blob is reshaped to.
MaxCols == 3

\* A blob of n bytes with distinguishable content.
TestBlob(n) == [i \in 1 .. n |-> i]

BlobCalls ==
    [fn : {"blob_to_array", "_blob_to_array"},
     blob : {Null} \cup {Some(TestBlob(n)) : n \in 0 .. MaxBlobLen},
     itemsize : {UINT8_SIZE, UINT32_SIZE, FLOAT64_SIZE},
     cols : 1 .. MaxCols]

InitBlob ==
    /\ call \in BlobCalls
    /\ ret = NoRet
    /\ openConns = 0

\* export_matches_from_db.blob_to_array(blob, dtype, (-1, cols)).
BlobToArray ==
    /\ call.fn = "blob_to_array"
    /\ ret.op = "none"
    /\ ret' = [op |-> "blob"] @@ blob_to_array(call.blob, call.itemsize, call.cols)
    /\ UNCHANGED <<call, openConns>>

\* ColmapDatabaseLoader._blob_to_array(blob, dtype, (-1, cols)).
LoaderBlobToArray ==
    /\ call.fn = "_blob_to_array"
    /\ ret.op = "none"
    /\ ret' = [op |-> "blob"] @@
                 loader_blob_to_array(call.blob, call.itemsize, call.cols)
    /\ UNCHANGED <<call, openConns>>

NextBlob == BlobToArray \/ LoaderBlobToArray

SpecBlob == InitBlob /\ [][NextBlob]_vars

\* The bytes of an array, row after row.
RECURSIVE Flatten(_)
Flatten(seqs) ==
    IF Len(seqs) = 0 THEN <<>> ELSE Head(seqs) \o Flatten(Tail(seqs))

\* C6: with shape (-1, cols) both decoders raise for every blob whose length
\* is not divisible by cols * itemsize, and for a blob of rows * cols *
\* itemsize bytes return, without error, rows rows of cols items holding the
\* blob's bytes in order.
C6_ByteLengthDivisibility ==
    (ret.op = "blob" /\ ~IsNull(call.blob)) =>
        LET rowBytes == call.cols * call.itemsize
            blob == Val(call.blob)
        IN  IF Len(blob) % rowBytes # 0
            THEN ret.status = "raise"
            ELSE /\ ret.status = "ok"
                 /\ Len(ret.value) = Len(blob) \div rowBytes
                 /\ \A r \in DOMAIN ret.value :
                        /\ Len(ret.value[r]) = call.cols
                        /\ \A c \in 1 .. call.cols :
                               Len(ret.value[r][c]) = call.itemsize
                 /\ Flatten(Flatten(ret.value)) = blob

\* A well-formed blob of three rows of two 4-byte items has been decoded.
C6_Witness ==
    /\ ret.op = "blob"
    /\ call.itemsize = UINT32_SIZE /\ call.cols = 2
    /\ call.blob = Some(TestBlob(24))
    /\ ret.status = "ok"
    /\ Len(ret.value) = 3

(***************************************************************************)
(* The relational store                                                    *)
(*                                                                         *)
(* A store is the content of the sqlite file: which tables exist, which    *)
(* columns the images table has, and the rows of each table in table       *)
(* order.  An image row keeps its pose columns in four groups:             *)
(*   prior_q = (prior_qw, prior_qx, prior_qy, prior_qz),                   *)
(*   prior_t = (prior_tx, prior_ty, prior_tz),                             *)
(*   q = (qw, qx, qy, qz) and t = (tx, ty, tz), each component nullable.   *)
(***************************************************************************)

BaseCols == {"image_id", "name", "camera_id"}
PriorQCols == {"prior_qw", "prior_qx", "prior_qy", "prior_qz"}
PriorTCols == {"prior_tx", "prior_ty", "prior_tz"}
OptCols == {"qw", "qx", "qy", "qz", "tx", "ty", "tz"}
AllTables == {"cameras", "images", "keypoints", "descriptors", "matches"}

AllPresent(group) == \A i \in DOMAIN group : ~IsNull(group[i])

\* Python's `x or 0' on a nullable number: None and 0 both give 0.
OrZero(x) == IF IsNull(x) \/ Val(x) = 0 THEN 0 ELSE Val(x)

\* SQL's COALESCE(x, 0).
Coalesce0(x) == IF IsNull(x) THEN 0 ELSE Val(x)

(***************************************************************************)
(* Pose geometry.  The source normalizes the quaternion by its Euclidean   *)
(* norm and fills the matrix from the normalized components.  Every entry  *)
(* of that matrix is an integer polynomial of the stored components over   *)
(* the squared norm, so the matrix is kept exactly as its numerators `num' *)
(* over the common denominator `den' (floating-point rounding is not       *)
(* modelled).  A zero norm makes the division raise ZeroDivisionError.     *)
(***************************************************************************)

SquaredNorm(q) == q[1] * q[1] + q[2] * q[2] + q[3] * q[3] + q[4] * q[4]

RotationNumerators(q) ==
    LET qw == q[1]  qx == q[2]  qy == q[3]  qz == q[4]
        n2 == SquaredNorm(q)
    IN  << << n2 - 2 * (qy * qy + qz * qz), 2 * (qx * qy - qw * qz),
              2 * (qx * qz + qw * qy) >>,
           << 2 * (qx * qy + qw * qz), n2 - 2 * (qx * qx + qz * qz),
              2 * (qy * qz - qw * qx) >>,
           << 2 * (qx * qz - qw * qy), 2 * (qy * qz + qw * qx),
              n2 - 2 * (qx * qx + qy * qy) >> >>

\* A variant without the division: a zero quaternion gives a matrix.
quaternion_to_rotation_matrix_nodiv(q) ==
    Ok([num |-> RotationNumerators(q), den |-> 1])

\* quaternion_to_rotation_matrix of export_camera_poses_from_db and of
\* export_global_poses_from_db (the two are the same text).
quaternion_to_rotation_matrix(q) ==
    IF SquaredNorm(q) = 0
    THEN Raise("ZeroDivisionError")
    ELSE Ok([num |-> RotationNumerators(q), den |-> SquaredNorm(q)])

\* camera_center = -R.T @ t, as numerators over R's denominator.
CameraCenter(R, t) ==
    [j \in 1 .. 3 |->
        0 - (R.num[1][j] * t[1] + R.num[2][j] * t[2] + R.num[3][j] * t[3])]

Vals(group) == [i \in DOMAIN group |-> Val(group[i])]

\* The body of the row loop of read_camera_poses_from_database for one row:
\* which pose fields are chosen, and whether the row yields a pose.
\*   registered: the row counts as registered (all seven optimized fields);
\*   kept: a pose record is appended for the row.
ResolveCameraPose(row) ==
    LET is_registered == AllPresent(row.q) /\ AllPresent(row.t)
        has_prior == AllPresent(row.prior_q)
        final_q == IF is_registered THEN Vals(row.q) ELSE Vals(row.prior_q)
        final_t == IF is_registered THEN Vals(row.t)
                   ELSE [i \in 1 .. 3 |-> OrZero(row.prior_t[i])]
    IN  IF ~is_registered /\ ~has_prior
        THEN [registered |-> FALSE, kept |-> FALSE, warned |-> FALSE]
        ELSE LET R == quaternion_to_rotation_matrix(final_q)
             IN  IF R.status = "raise"
                 THEN [registered |-> is_registered, kept |-> FALSE,
                       warned |-> TRUE]
                 ELSE [registered |-> is_registered, kept |-> TRUE,
                       warned |-> FALSE,
                       pose |-> [image_id |-> row.image_id,
                                 image_name |-> row.name,
                                 camera_id |-> row.camera_id,
                                 is_registered |-> is_registered,
                                 quaternion |-> final_q,
                                 translation |-> final_t,
                                 camera_center |->
                                     CameraCenter(R.value, final_t),
                                 rotation_matrix |-> R.value]]

RECURSIVE CameraPoses(_)
CameraPoses(rows) ==
    IF Len(rows) = 0 THEN <<>>
    ELSE LET r == ResolveCameraPose(Head(rows))
         IN  (IF r.kept THEN <<r.pose>> ELSE <<>>) \o CameraPoses(Tail(rows))

RECURSIVE RegisteredCount(_)
RegisteredCount(rows) ==
    IF Len(rows) = 0 THEN 0
    ELSE (IF ResolveCameraPose(Head(rows)).registered THEN 1 ELSE 0)
         + RegisteredCount(Tail(rows))

\* The names the row loop of read_camera_poses_from_database prints a
\* warning for: the rows whose pose computation raised.
RECURSIVE CameraWarnings(_)
CameraWarnings(rows) ==
    IF Len(rows) = 0 THEN <<>>
    ELSE (IF ResolveCameraPose(Head(rows)).warned
          THEN <<Head(rows).name>> ELSE <<>>)
         \o CameraWarnings(Tail(rows))

\* The camera loop: params is decoded as float64 unless it is NULL or empty.
CameraParams(cam) ==
    IF IsNull(cam.params) \/ Val(cam.params) = <<>>
    THEN Ok(<<>>)
    ELSE frombuffer(Val(cam.params), FLOAT64_SIZE)

\* read_camera_poses_from_database: connect, read the cameras, read and
\* resolve the image rows, close.  A failing statement or a failing params
\* decode raises out of the function before connection.close() is reached.
read_camera_poses_from_database(store) ==
    IF "cameras" \notin store.tables
    THEN Raise("OperationalError") @@ [closed |-> FALSE]
    ELSE IF \E i \in DOMAIN store.cameras :
                CameraParams(store.cameras[i]).status = "raise"
    THEN Raise("ValueError") @@ [closed |-> FALSE]
    ELSE IF \/ "images" \notin store.tables
            \/ ~((BaseCols \cup PriorQCols \cup PriorTCols \cup OptCols)
                    \subseteq store.columns)
    THEN Raise("OperationalError") @@ [closed |-> FALSE]
    ELSE [status |-> "ok", closed |-> TRUE,
          poses |-> CameraPoses(store.images),
          cameras |-> [i \in DOMAIN store.cameras |->
                          [camera_id |-> store.cameras[i].camera_id,
                           model |-> store.cameras[i].model,
                           width |-> store.cameras[i].width,
                           height |-> store.cameras[i].height,
                           params |-> CameraParams(store.cameras[i]).value]],
          registered_count |-> RegisteredCount(store.images),
          warnings |-> CameraWarnings(store.images)]

\* The rows the optimized-pose query of read_global_poses_from_database
\* selects, as (image_id, name, camera_id, quaternion, translation).
OptimizedRows(rows) ==
    LET sel == SelectSeq(rows, LAMBDA r : AllPresent(r.q) /\ AllPresent(r.t))
    IN  [i \in DOMAIN sel |->
            [image_id |-> sel[i].image_id, name |-> sel[i].name,
             camera_id |-> sel[i].camera_id,
             q |-> Vals(sel[i].q), t |-> Vals(sel[i].t)]]

\* The rows its prior-pose query selects.
PriorRows(rows) ==
    LET sel == SelectSeq(rows, LAMBDA r : AllPresent(r.prior_q))
    IN  [i \in DOMAIN sel |->
            [image_id |-> sel[i].image_id, name |-> sel[i].name,
             camera_id |-> sel[i].camera_id,
             q |-> Vals(sel[i].prior_q),
             t |-> [k \in 1 .. 3 |-> Coalesce0(sel[i].prior_t[k])]]]

\* The query read_global_poses_from_database runs: the optimized one when
\* the table has the optimized columns, the prior one otherwise.  The
\* choice is made once per table, from the column names.
GlobalQueryRows(store, has_optimized) ==
    IF has_optimized THEN OptimizedRows(store.images)
    ELSE PriorRows(store.images)

\* A variant of the row loop that gives up at the first row that fails.
RECURSIVE GlobalPoses_aborting(_)
GlobalPoses_aborting(rows) ==
    IF Len(rows) = 0 THEN <<>>
    ELSE LET row == Head(rows)
             R == quaternion_to_rotation_matrix(row.q)
         IN  IF R.status = "raise" THEN <<>>
             ELSE << [image_id |-> row.image_id, image_name |-> row.name,
                      camera_id |-> row.camera_id,
                      rotation_matrix |-> R.value,
                      translation |-> row.t] >>
                  \o GlobalPoses_aborting(Tail(rows))

\* The row loop of read_global_poses_from_database.
RECURSIVE GlobalPoses(_)
GlobalPoses(rows) ==
    IF Len(rows) = 0 THEN <<>>
    ELSE LET row == Head(rows)
             R == quaternion_to_rotation_matrix(row.q)
         IN  (IF R.status = "raise" THEN <<>>
              ELSE << [image_id |-> row.image_id, image_name |-> row.name,
                       camera_id |-> row.camera_id,
                       rotation_matrix |-> R.value,
                       translation |-> row.t] >>)
             \o GlobalPoses(Tail(rows))

\* The names the row loop of read_global_poses_from_database prints a
\* warning for.
GlobalWarnings(rows) ==
    LET failed == SelectSeq(rows, LAMBDA row :
                      quaternion_to_rotation_matrix(row.q).status = "raise")
    IN  [i \in DOMAIN failed |-> failed[i].name]

\* read_global_poses_from_database: PRAGMA table_info gives the columns (none
\* for a missing table); no pose columns close the connection and return [];
\* a query naming a missing column raises before connection.close().
read_global_poses_from_database(store) ==
    LET columns == IF "images" \in store.tables THEN store.columns ELSE {}
        has_prior == PriorQCols \subseteq columns
        has_optimized == OptCols \subseteq columns
    IN  IF ~has_prior /\ ~has_optimized
        THEN [status |-> "ok", closed |-> TRUE, poses |-> <<>>,
              warnings |-> <<>>]
        ELSE IF \/ ~(BaseCols \subseteq columns)
                \/ (~has_optimized /\ ~(PriorTCols \subseteq columns))
        THEN Raise("OperationalError") @@ [closed |-> FALSE]
        ELSE [status |-> "ok", closed |-> TRUE,
              poses |-> GlobalPoses(GlobalQueryRows(store, has_optimized)),
              warnings |->
                  GlobalWarnings(GlobalQueryRows(store, has_optimized))]

\* A variant whose count line also counts itself.
export_global_poses_txt_miscount(poses_data) ==
    << <<Len(poses_data) + 1>> >> \o
    [i \in DOMAIN poses_data |->
        LET R == poses_data[i].rotation_matrix
            t == poses_data[i].translation
        IN  << poses_data[i].image_name,
               <<R.num[1][1], R.den>>, <<R.num[2][1], R.den>>,
               <<R.num[3][1], R.den>>, <<R.num[1][2], R.den>>,
               <<R.num[2][2], R.den>>, <<R.num[3][2], R.den>>,
               <<R.num[1][3], R.den>>, <<R.num[2][3], R.den>>,
               <<R.num[3][3], R.den>>, t[1], t[2], t[3] >>]

\* export_global_poses_txt of export_global_poses_from_db: the count line,
\* then one line per pose with the matrix entries column-major and the
\* translation.  A line is kept as its fields.
export_global_poses_txt(poses_data) ==
    << <<Len(poses_data)>> >> \o
    [i \in DOMAIN poses_data |->
        LET R == poses_data[i].rotation_matrix
            t == poses_data[i].translation
        IN  << poses_data[i].image_name,
               <<R.num[1][1], R.den>>, <<R.num[2][1], R.den>>,
               <<R.num[3][1], R.den>>, <<R.num[1][2], R.den>>,
               <<R.num[2][2], R.den>>, <<R.num[3][2], R.den>>,
               <<R.num[1][3], R.den>>, <<R.num[2][3], R.den>>,
               <<R.num[3][3], R.den>>, t[1], t[2], t[3] >>]

(***************************************************************************)
(* Keypoints and matches of the store                                      *)
(***************************************************************************)

\* The last row of `rows' whose `key' field is k, as a nullable value (a
\* dict filled row by row keeps the last value stored under a key).
RECURSIVE Lookup(_, _, _)
Lookup(rows, key, k) ==
    IF Len(rows) = 0 THEN Null
    ELSE LET last == rows[Len(rows)]
         IN  IF last[key] = k THEN Some(last)
             ELSE Lookup(SubSeq(rows, 1, Len(rows) - 1), key, k)

\* The keypoints loop of read_database_matches: every row with data is
\* decoded as float32 with the row's cols; `rows' is not consulted.
DecodedKeypoints(store) ==
    LET withData == SelectSeq(store.keypoints, LAMBDA r : ~IsNull(r.data))
    IN  [i \in DOMAIN withData |->
            [image_id |-> withData[i].image_id,
             kpts |-> blob_to_array(withData[i].data, FLOAT32_SIZE,
                                    withData[i].cols)]]

\* The coordinates of the matches of one pair: for every index pair, in
\* stored order, whose two indices are inside the keypoint arrays, the first
\* two columns of each keypoint.
MatchCoords(matches, kpts1, kpts2) ==
    LET inside == SelectSeq(matches,
                      LAMBDA m : /\ LittleEndian(m[1]) < Len(kpts1)
                                 /\ LittleEndian(m[2]) < Len(kpts2))
    IN  [i \in DOMAIN inside |->
            LET k1 == kpts1[LittleEndian(inside[i][1]) + 1]
                k2 == kpts2[LittleEndian(inside[i][2]) + 1]
            IN  <<k1[1], k1[2], k2[1], k2[2]>>]

\* The body of the matches loop of read_database_matches for one row:
\*   "skip"  the row is passed over,
\*   "raise" decoding or unpacking raised,
\*   "pair"  a record is appended to matches_data.
MatchRowOutcome(row, images, keypoints) ==
    IF IsNull(row.data) \/ row.rows <= 0 THEN [kind |-> "skip"]
    ELSE
    LET ids == pair_id_to_image_ids(row.pair_id)
        img1 == Lookup(images, "image_id", ids[1])
        img2 == Lookup(images, "image_id", ids[2])
        kp1 == Lookup(keypoints, "image_id", ids[1])
        kp2 == Lookup(keypoints, "image_id", ids[2])
    IN  IF IsNull(img1) \/ IsNull(img2) THEN [kind |-> "skip"]
        ELSE IF IsNull(kp1) \/ IsNull(kp2) THEN [kind |-> "skip"]
        ELSE
        LET matches == blob_to_array(row.data, UINT32_SIZE, 2)
        IN  IF matches.status = "raise"
            THEN [kind |-> "raise", error |-> matches.error]
            ELSE IF Len(matches.value) = 0 THEN [kind |-> "skip"]
            ELSE
            LET kpts1 == Val(kp1).kpts.value
                kpts2 == Val(kp2).kpts.value
                coords == MatchCoords(matches.value, kpts1, kpts2)
                narrow == \/ Len(kpts1) > 0 /\ Len(kpts1[1]) < 2
                          \/ Len(kpts2) > 0 /\ Len(kpts2[1]) < 2
            IN  IF narrow /\ \E i \in DOMAIN matches.value :
                       /\ LittleEndian(matches.value[i][1]) < Len(kpts1)
                       /\ LittleEndian(matches.value[i][2]) < Len(kpts2)
                THEN [kind |-> "raise", error |-> "ValueError"]
                ELSE IF Len(coords) = 0 THEN [kind |-> "skip"]
                ELSE [kind |-> "pair",
                      pair |-> [image_id1 |-> ids[1], image_id2 |-> ids[2],
                                camera_id1 |-> Val(img1).camera_id,
                                camera_id2 |-> Val(img2).camera_id,
                                image_name1 |-> Val(img1).name,
                                image_name2 |-> Val(img2).name,
                                matches |-> coords]]

RECURSIVE MatchPairs(_, _, _)
MatchPairs(rows, images, keypoints) ==
    IF Len(rows) = 0 THEN <<>>
    ELSE LET o == MatchRowOutcome(Head(rows), images, keypoints)
         IN  (IF o.kind = "pair" THEN <<o.pair>> ELSE <<>>)
             \o MatchPairs(Tail(rows), images, keypoints)

\* read_database_matches: connect, read the images, decode every keypoints
\* row, walk the matches rows with rows > 0, close.  Nothing in the function
\* catches an exception: the first failing statement or decode raises out of
\* it, before connection.close() and without a result.
read_database_matches(store) ==
    IF ~({"images", "keypoints", "matches"} \subseteq store.tables)
    THEN Raise("OperationalError") @@ [closed |-> FALSE]
    ELSE
    LET images == store.images
        keypoints == DecodedKeypoints(store)
        rows == SelectSeq(store.matches, LAMBDA r : r.rows > 0)
    IN  IF \E i \in DOMAIN keypoints : keypoints[i].kpts.status = "raise"
        THEN Raise("ValueError") @@ [closed |-> FALSE]
        ELSE IF \E i \in DOMAIN rows :
                    MatchRowOutcome(rows[i], images, keypoints).kind = "raise"
        THEN Raise("ValueError") @@ [closed |-> FALSE]
        ELSE [status |-> "ok", closed |-> TRUE,
              matches_data |-> MatchPairs(rows, images, keypoints)]

\* The row loop of ColmapDatabaseLoader.get_all_matches on the sqlite path.
RECURSIVE LoaderMatchInfos(_)
LoaderMatchInfos(rows) ==
    IF Len(rows) = 0 THEN <<>>
    ELSE LET row == Head(rows)
             ids == loader_pair_id_to_image_ids(row.pair_id)
             match_array == loader_blob_to_array(row.data, UINT32_SIZE, 2)
         IN  (IF match_array.status = "ok" /\ Len(match_array.value) > 0
              THEN << [image_id1 |-> ids[1], image_id2 |-> ids[2],
                       matches |-> [i \in DOMAIN match_array.value |->
                           << LittleEndian(match_array.value[i][1]),
                              LittleEndian(match_array.value[i][2]) >>]] >>
              ELSE <<>>)
             \o LoaderMatchInfos(Tail(rows))

\* ColmapDatabaseLoader.get_all_matches on the sqlite path: the loop has no
\* try, so a blob that cannot be decoded raises out of the method.
get_all_matches(store) ==
    IF "matches" \notin store.tables THEN Raise("OperationalError")
    ELSE
    LET rows == SelectSeq(store.matches, LAMBDA r : r.rows > 0)
    IN  IF \E i \in DOMAIN rows :
               loader_blob_to_array(rows[i].data, UINT32_SIZE, 2).status
                   = "raise"
        THEN Raise("ValueError")
        ELSE [status |-> "ok", matches |-> LoaderMatchInfos(rows)]

\* ColmapDatabaseLoader._read_keypoints_sqlite / _read_descriptors_sqlite:
\* the first row of the table for the image, decoded with the row's cols.
read_blob_row_sqlite(store, table, rows, image_id, itemsize) ==
    IF table \notin store.tables THEN Raise("OperationalError")
    ELSE LET mine == SelectSeq(rows, LAMBDA r : r.image_id = image_id)
         IN  IF Len(mine) = 0 THEN ReturnsNone
             ELSE loader_blob_to_array(mine[1].data, itemsize, mine[1].cols)

\* ColmapDatabaseLoader.get_features on the sqlite path: any exception of
\* the two reads is caught and the image gives None.
get_features(store, image_id) ==
    LET keypoints == read_blob_row_sqlite(store, "keypoints",
                         store.keypoints, image_id, FLOAT32_SIZE)
        descriptors == read_blob_row_sqlite(store, "descriptors",
                           store.descriptors, image_id, UINT8_SIZE)
    IN  IF keypoints.status = "raise" \/ descriptors.status = "raise"
        THEN ReturnsNone
        ELSE IF keypoints.status = "none" THEN ReturnsNone
        ELSE [status |-> "ok", image_id |-> image_id,
              keypoints |-> keypoints.value,
              descriptors |-> descriptors]

\* ColmapDatabaseLoader.get_matches on the sqlite path: the row stored
\* under the pair id of the two ids, whatever their order; an exception is
\* caught and gives None, as do no row, NULL data and an empty array.  The
\* MatchInfo carries the two ids as they were passed.
get_matches(store, image_id1, image_id2) ==
    IF "matches" \notin store.tables THEN ReturnsNone
    ELSE
    LET pair_id == image_ids_to_pair_id(image_id1, image_id2)
        mine == SelectSeq(store.matches, LAMBDA r : r.pair_id = pair_id)
    IN  IF Len(mine) = 0 THEN ReturnsNone
        ELSE
        LET matches == loader_blob_to_array(mine[1].data, UINT32_SIZE, 2)
        IN  IF matches.status # "ok" THEN ReturnsNone
            ELSE IF Len(matches.value) = 0 THEN ReturnsNone
            ELSE [status |-> "ok", image_id1 |-> image_id1,
                  image_id2 |-> image_id2,
                  matches |-> [i \in DOMAIN matches.value |->
                      << LittleEndian(matches.value[i][1]),
                         LittleEndian(matches.value[i][2]) >>]]

(***************************************************************************)
(* The stores the readers are run on                                       *)
(***************************************************************************)

\* Most image rows of a store built from the row kinds below.
MaxImages == 3

\* Most rows of the matches table.
MaxPairs == 2

FullCols == BaseCols \cup PriorQCols \cup PriorTCols \cup OptCols

\* group with the positions in `nulls' set to NULL.
WithNulls(group, nulls) ==
    [i \in DOMAIN group |-> IF i \in nulls THEN Null ELSE Some(group[i])]

ImageName(i) == [stem |-> <<"img", i>>, ext |-> ".jpg"]

ImageRow(i, prior_q, prior_t, q, t) ==
    [image_id |-> i, name |-> ImageName(i), camera_id |-> 1 + (i % 2),
     prior_q |-> prior_q, prior_t |-> prior_t, q |-> q, t |-> t]

UnitQ == <<1, 0, 0, 0>>
HalfTurnQ == <<0, 1, 0, 0>>
LongQ == <<1, 1, 1, 1>>
ZeroQ == <<0, 0, 0, 0>>
OptT == <<1, 2, 3>>
PriorT == <<4, 0, 6>>

\* Null patterns of a group of n columns: none, each single column, all.
EdgeNulls(n) == {{}} \cup {{i} : i \in 1 .. n} \cup {1 .. n}

\* Every one-row images table: the optimized quaternion and translation and
\* the prior quaternion each with an edge null pattern, the prior
\* translation with every null pattern, each quaternion zero or not.
SingleRows ==
    { ImageRow(1, WithNulls(pq, pqn), WithNulls(PriorT, ptn),
                  WithNulls(oq, oqn), WithNulls(OptT, otn)) :
        pq \in {HalfTurnQ, ZeroQ}, pqn \in EdgeNulls(4),
        ptn \in SUBSET (1 .. 3),
        oq \in {LongQ, ZeroQ}, oqn \in EdgeNulls(4),
        otn \in {{}, {2}, 1 .. 3} }

\* The row kinds of the larger tables.
KindRow(kind, i) ==
    CASE kind = "optimized" ->
            ImageRow(i, WithNulls(HalfTurnQ, 1 .. 4), WithNulls(PriorT, 1 .. 3),
                        WithNulls(LongQ, {}), WithNulls(OptT, {}))
      [] kind = "both" ->
            ImageRow(i, WithNulls(HalfTurnQ, {}), WithNulls(PriorT, {}),
                        WithNulls(UnitQ, {}), WithNulls(OptT, {}))
      [] kind = "prior_only" ->
            ImageRow(i, WithNulls(HalfTurnQ, {}), WithNulls(PriorT, 1 .. 3),
                        WithNulls(LongQ, 1 .. 4), WithNulls(OptT, 1 .. 3))
      [] kind = "zero" ->
            ImageRow(i, WithNulls(HalfTurnQ, 1 .. 4), WithNulls(PriorT, 1 .. 3),
                        WithNulls(ZeroQ, {}), WithNulls(OptT, {}))
      [] kind = "prior_zero" ->
            ImageRow(i, WithNulls(ZeroQ, {}), WithNulls(PriorT, {}),
                        WithNulls(LongQ, 1 .. 4), WithNulls(OptT, 1 .. 3))
      [] kind = "none" ->
            ImageRow(i, WithNulls(HalfTurnQ, 1 .. 4), WithNulls(PriorT, 1 .. 3),
                        WithNulls(LongQ, 1 .. 4), WithNulls(OptT, 1 .. 3))

RowKinds == {"optimized", "both", "prior_only", "zero", "prior_zero", "none"}

KindTables ==
    UNION { { [i \in 1 .. n |-> KindRow(ks[i], i)] : ks \in [1 .. n -> RowKinds] } :
            n \in 2 .. MaxImages }

\* A float64 params blob of k parameters.
ParamsBlob(k) == [i \in 1 .. k * FLOAT64_SIZE |-> i]

CameraRow(i, params) ==
    [camera_id |-> i, model |-> 1, width |-> 640, height |-> 480,
     params |-> params]

GoodCameras == << CameraRow(1, Some(ParamsBlob(4))), CameraRow(2, Null) >>
BadCameras == << CameraRow(1, Some(ParamsBlob(4))),
                 CameraRow(2, Some(SubSeq(ParamsBlob(4), 1, 7))) >>

\* The column sets an images table comes with.
ColumnSets ==
    { FullCols, BaseCols \cup PriorQCols \cup PriorTCols,
      BaseCols \cup PriorQCols, BaseCols }

PoseStore(tables, columns, cameras, images) ==
    [tables |-> tables, columns |-> columns, cameras |-> cameras,
     images |-> images, keypoints |-> <<>>, descriptors |-> <<>>,
     matches |-> <<>>]

PoseStores ==
    { PoseStore(AllTables, FullCols, GoodCameras, <<r>>) : r \in SingleRows }
    \cup { PoseStore(AllTables, cols, GoodCameras, imgs) :
              cols \in ColumnSets, imgs \in KindTables }
    \cup { PoseStore(AllTables \ {"cameras"}, FullCols, <<>>, imgs) :
              imgs \in KindTables }
    \cup { PoseStore(AllTables \ {"images"}, {}, GoodCameras, <<>>) }
    \cup { PoseStore(AllTables, FullCols, BadCameras, imgs) :
              imgs \in KindTables }

\* A 4-byte item holding the small number n (float32 coordinates are kept
\* as their byte patterns, uint32 indices are read little-endian).
Item4(n) == <<n, 0, 0, 0>>

\* The blob of an array given as rows of small numbers.
ArrayBlob(rows) == Flatten([r \in DOMAIN rows |->
                      Flatten([c \in DOMAIN rows[r] |-> Item4(rows[r][c])])])

KeypointsRow(image_id, rows, cols, data) ==
    [image_id |-> image_id, rows |-> rows, cols |-> cols, data |-> data]

\* Two keypoints (x, y) per image, different in every image.
GoodKeypoints(i) ==
    KeypointsRow(i, 2, 2, Some(ArrayBlob(<< <<10 * i + 1, 10 * i + 2>>,
                                           <<10 * i + 3, 10 * i + 4>> >>)))

\* The keypoints rows offered for image 1: well formed; one byte short; an
\* odd number of items for two columns; a rows field that disagrees with
\* the blob; a wider row (x, y, scale, orientation); a single column; NULL.
Image1Keypoints ==
    LET good == Val(GoodKeypoints(1).data)
    IN  { GoodKeypoints(1),
          KeypointsRow(1, 2, 2, Some(SubSeq(good, 1, 15))),
          KeypointsRow(1, 2, 2, Some(SubSeq(good, 1, 12))),
          KeypointsRow(1, 3, 2, Some(good)),
          KeypointsRow(1, 1, 4, Some(good)),
          KeypointsRow(1, 4, 1, Some(good)),
          KeypointsRow(1, 2, 2, Null) }

MatchesRow(ids, rows, data) ==
    [pair_id |-> image_ids_to_pair_id(ids[1], ids[2]), rows |-> rows,
     cols |-> 2, data |-> data]

\* The matches rows offered for a pair: two index pairs; a 7-byte blob; a
\* rows field of 5 over one index pair; an index outside the keypoints; an
\* empty row; NULL data.
PairMatches(ids) ==
    { MatchesRow(ids, 2, Some(ArrayBlob(<< <<0, 1>>, <<1, 0>> >>))),
      MatchesRow(ids, 1, Some(SubSeq(ArrayBlob(<< <<0, 1>> >>), 1, 7))),
      MatchesRow(ids, 5, Some(ArrayBlob(<< <<1, 1>> >>))),
      MatchesRow(ids, 1, Some(ArrayBlob(<< <<0, 9>> >>))),
      MatchesRow(ids, 0, Some(<<>>)),
      MatchesRow(ids, 1, Null) }

\* The pairs that may have a matches row; image 4 is in no images table.
StoredPairs == { <<1, 2>>, <<2, 3>>, <<1, 4>> }

AnyMatchesRow == UNION { PairMatches(ids) : ids \in StoredPairs }

\* Matches tables: pair_id is the table's primary key, so no two rows of a
\* table share one.
MatchTables ==
    UNION { { t \in [1 .. n -> AnyMatchesRow] :
                \A i, j \in 1 .. n : i # j => t[i].pair_id # t[j].pair_id } :
            n \in 0 .. MaxPairs }

DescriptorsRow(image_id, rows, cols, data) ==
    [image_id |-> image_id, rows |-> rows, cols |-> cols, data |-> data]

GoodDescriptors(i) ==
    DescriptorsRow(i, 2, 4, Some([k \in 1 .. 8 * UINT8_SIZE |-> k]))

MatchStore(tables, kp1, matches) ==
    [tables |-> tables, columns |-> FullCols, cameras |-> GoodCameras,
     images |-> [i \in 1 .. 3 |-> KindRow("optimized", i)],
     keypoints |-> <<kp1, GoodKeypoints(2), GoodKeypoints(3)>>,
     descriptors |-> <<GoodDescriptors(1), GoodDescriptors(2),
                       DescriptorsRow(3, 2, 4, Some(<<1, 2, 3, 4, 5, 6, 7>>))>>,
     matches |-> matches]

MatchStores ==
    { MatchStore(AllTables, kp1, m) :
        kp1 \in Image1Keypoints, m \in MatchTables }
    \cup { MatchStore(AllTables \ {t}, GoodKeypoints(1), m) :
              t \in {"images", "keypoints", "descriptors", "matches"},
              m \in {t \in MatchTables : Len(t) <= 1} }

(***************************************************************************)
(* Reading the store                                                       *)
(***************************************************************************)

StoreCalls ==
    [fn : {"read_camera_poses_from_database",
           "read_global_poses_from_database"}, store : PoseStores]
    \cup [fn : {"read_database_matches", "get_all_matches"},
          store : MatchStores]
    \cup [fn : {"get_features"}, store : MatchStores, image_id : 1 .. 4]

InitStore ==
    /\ call \in StoreCalls
    /\ ret = NoRet
    /\ openConns = 0

\* A function that opens its own connection leaves it open unless it
\* reached its connection.close().
Leaked(r) == IF r.closed THEN 0 ELSE 1

ReadCameraPoses ==
    /\ call.fn = "read_camera_poses_from_database"
    /\ ret.op = "none"
    /\ LET r == read_camera_poses_from_database(call.store)
       IN  /\ ret' = [op |-> "read_camera_poses"] @@ r
           /\ openConns' = openConns + Leaked(r)
    /\ UNCHANGED call

ReadGlobalPoses ==
    /\ call.fn = "read_global_poses_from_database"
    /\ ret.op = "none"
    /\ LET r == read_global_poses_from_database(call.store)
       IN  /\ ret' = [op |-> "read_global_poses"] @@ r
                     @@ [file |-> IF r.status = "ok" /\ Len(r.poses) > 0
                                  THEN export_global_poses_txt(r.poses)
                                  ELSE <<>>]
           /\ openConns' = openConns + Leaked(r)
    /\ UNCHANGED call

ReadDatabaseMatches ==
    /\ call.fn = "read_database_matches"
    /\ ret.op = "none"
    /\ LET r == read_database_matches(call.store)
       IN  /\ ret' = [op |-> "read_database_matches"] @@ r
           /\ openConns' = openConns + Leaked(r)
    /\ UNCHANGED call

\* The loader reads through the connection its constructor opened.
GetAllMatches ==
    /\ call.fn = "get_all_matches"
    /\ ret.op = "none"
    /\ ret' = [op |-> "get_all_matches"] @@ get_all_matches(call.store)
    /\ UNCHANGED <<call, openConns>>

GetFeatures ==
    /\ call.fn = "get_features"
    /\ ret.op = "none"
    /\ ret' = [op |-> "get_features"]
                 @@ get_features(call.store, call.image_id)
    /\ UNCHANGED <<call, openConns>>

NextStore ==
    \/ ReadCameraPoses
    \/ ReadGlobalPoses
    \/ ReadDatabaseMatches
    \/ GetAllMatches
    \/ GetFeatures

SpecStore == InitStore /\ [][NextStore]_vars

\* The poses of a result that belong to an image.
PosesOf(poses, image_id) ==
    SelectSeq(poses, LAMBDA p : p.image_id = image_id)

\* What the precedence rule selects for a row, from its null pattern alone.
SelectsOptimized(row) == AllPresent(row.q) /\ AllPresent(row.t)
SelectsPrior(row) == ~SelectsOptimized(row) /\ AllPresent(row.prior_q)
PriorTranslation(row) ==
    [i \in 1 .. 3 |-> IF IsNull(row.prior_t[i]) THEN 0 ELSE Val(row.prior_t[i])]

ExactlyOnePose(poses, row, q, t, registered) ==
    /\ Len(PosesOf(poses, row.image_id)) = 1
    /\ PosesOf(poses, row.image_id)[1].quaternion = q
    /\ PosesOf(poses, row.image_id)[1].translation = t
    /\ PosesOf(poses, row.image_id)[1].is_registered = registered

ReturnedCameraPoses ==
    /\ call.fn = "read_camera_poses_from_database"
    /\ ret.op = "read_camera_poses"
    /\ ret.status = "ok"

\* C2 as stated: the outcome of every image row is decided by its null
\* pattern alone: all seven optimized fields non-null gives the optimized
\* pose, registered; otherwise four non-null prior quaternion fields give
\* the prior pose with null translation components 0, not registered;
\* otherwise the image is absent.
C2_PrecedenceByNullsOnly ==
    ReturnedCameraPoses =>
        \A i \in DOMAIN call.store.images :
            LET row == call.store.images[i]
            IN  IF SelectsOptimized(row)
                THEN ExactlyOnePose(ret.poses, row, Vals(row.q), Vals(row.t),
                                    TRUE)
                ELSE IF SelectsPrior(row)
                THEN ExactlyOnePose(ret.poses, row, Vals(row.prior_q),
                                    PriorTranslation(row), FALSE)
                ELSE Len(PosesOf(ret.poses, row.image_id)) = 0

\* C2, amended: the null pattern selects the optimized fields (all seven
\* non-null) or else the prior fields (all four prior quaternion fields
\* non-null) or nothing.  The image is in the output exactly when fields are
\* selected and the selected quaternion is not (0,0,0,0); its pose then
\* carries the selected quaternion and translation (null prior translation
\* components as 0) and is registered exactly when the optimized fields were
\* selected.  A row whose selected quaternion is zero is absent, whatever
\* its other fields hold.
C2_PosePrecedence ==
    ReturnedCameraPoses =>
        \A i \in DOMAIN call.store.images :
            LET row == call.store.images[i]
            IN  IF SelectsOptimized(row) /\ Vals(row.q) # ZeroQ
                THEN ExactlyOnePose(ret.poses, row, Vals(row.q), Vals(row.t),
                                    TRUE)
                ELSE IF SelectsPrior(row) /\ Vals(row.prior_q) # ZeroQ
                THEN ExactlyOnePose(ret.poses, row, Vals(row.prior_q),
                                    PriorTranslation(row), FALSE)
                ELSE Len(PosesOf(ret.poses, row.image_id)) = 0

\* A one-row table with every optimized and every prior field present has
\* been resolved to its optimized pose.
C2_Witness ==
    /\ ReturnedCameraPoses
    /\ Len(call.store.images) = 1
    /\ AllPresent(call.store.images[1].q)
    /\ AllPresent(call.store.images[1].t)
    /\ AllPresent(call.store.images[1].prior_q)
    /\ AllPresent(call.store.images[1].prior_t)
    /\ Len(ret.poses) = 1
    /\ ret.poses[1].quaternion = LongQ
    /\ ret.poses[1].is_registered

\* C3 as stated: for a store whose images table holds one fully optimized
\* image, one prior-only image and one image without pose data,
\* read_global_poses_from_database returns 2 poses and the exported file
\* starts with the line 2.
C3_GlobalFileHoldsPriorOnlyImages ==
    (/\ call.fn = "read_global_poses_from_database"
     /\ ret.op = "read_global_poses"
     /\ call.store.tables = AllTables
     /\ call.store.columns = FullCols
     /\ call.store.images = << KindRow("optimized", 1),
                               KindRow("prior_only", 2),
                               KindRow("none", 3) >>)
    => /\ ret.status = "ok"
       /\ Len(ret.poses) = 2
       /\ Len(ret.file) > 0
       /\ ret.file[1] = <<2>>

\* A matches row get_all_matches can decode on its own.
DecodableMatches(row) ==
    /\ row.rows > 0
    /\ ~IsNull(row.data)
    /\ Len(Val(row.data)) > 0
    /\ Len(Val(row.data)) % (2 * UINT32_SIZE) = 0

\* C4 as stated: a row whose blob cannot be decoded is skipped and the rest
\* of the batch is returned: on a store with all its tables
\* read_database_matches and get_all_matches return normally, and
\* get_all_matches returns the pair of every row it can decode.
C4_DecodeFailureSkipsRecord ==
    (/\ ret.op \in {"read_database_matches", "get_all_matches"}
     /\ call.store.tables = AllTables)
    => /\ ret.status = "ok"
       /\ ret.op = "get_all_matches" =>
            \A i \in DOMAIN call.store.matches :
                DecodableMatches(call.store.matches[i]) =>
                    \E j \in DOMAIN ret.matches :
                        <<ret.matches[j].image_id1, ret.matches[j].image_id2>>
                          = loader_pair_id_to_image_ids(
                                call.store.matches[i].pair_id)

\* A row whose blob length is not rows * cols * itemsize.
ShapeMismatch(row, itemsize) ==
    /\ ~IsNull(row.data)
    /\ Len(Val(row.data)) # row.rows * row.cols * itemsize

\* C5 as stated: a keypoints, descriptors or matches row whose blob length
\* differs from rows * cols * itemsize is rejected when it is decoded:
\* read_database_matches raises for such a keypoints row, and get_features
\* gives no features for an image with such a keypoints or descriptors row.
C5_StoredShapeChecked ==
    /\ (/\ ret.op = "read_database_matches"
        /\ call.store.tables = AllTables
        /\ \E i \in DOMAIN call.store.keypoints :
               ShapeMismatch(call.store.keypoints[i], FLOAT32_SIZE))
       => ret.status = "raise"
    /\ (/\ ret.op = "get_features"
        /\ call.store.tables = AllTables
        /\ \/ \E i \in DOMAIN call.store.keypoints :
                  /\ call.store.keypoints[i].image_id = call.image_id
                  /\ ShapeMismatch(call.store.keypoints[i], FLOAT32_SIZE)
           \/ \E i \in DOMAIN call.store.descriptors :
                  /\ call.store.descriptors[i].image_id = call.image_id
                  /\ ShapeMismatch(call.store.descriptors[i], UINT8_SIZE))
       => ret.status = "none"

\* C8 as stated: when read_database_matches, read_camera_poses_from_database
\* or read_global_poses_from_database has returned or raised, the connection
\* it opened is closed.
C8_ConnectionReleased ==
    ret.op \in {"read_database_matches", "read_camera_poses",
                "read_global_poses"}
    => openConns = 0

\* The rows whose resolved quaternion is (0,0,0,0): for the camera-pose
\* reader the quaternion the row's null pattern selects, for the global-pose
\* reader the quaternion of the query the table's columns select.
ZeroResolvedCamera(row) ==
    \/ SelectsOptimized(row) /\ Vals(row.q) = ZeroQ
    \/ SelectsPrior(row) /\ Vals(row.prior_q) = ZeroQ

ZeroResolvedGlobal(store, row) ==
    IF OptCols \subseteq store.columns
    THEN SelectsOptimized(row) /\ Vals(row.q) = ZeroQ
    ELSE /\ PriorQCols \subseteq store.columns
         /\ AllPresent(row.prior_q) /\ Vals(row.prior_q) = ZeroQ

ZeroResolved(row) ==
    IF call.fn = "read_camera_poses_from_database"
    THEN ZeroResolvedCamera(row)
    ELSE ZeroResolvedGlobal(call.store, row)

\* The store of the call without its zero-quaternion rows.
StoreWithoutZeroRows ==
    [call.store EXCEPT
        !.images = SelectSeq(@, LAMBDA row : ~ZeroResolved(row))]

\* What the reader of the call returns on a store.
PoseReaderOn(store) ==
    IF call.fn = "read_camera_poses_from_database"
    THEN read_camera_poses_from_database(store)
    ELSE read_global_poses_from_database(store)

\* C12: a zero resolved quaternion is a per-record failure.  Whenever the
\* reader succeeds on the store without its zero-quaternion rows, it succeeds
\* on the whole store, returns exactly the poses it returns without those
\* rows (so none for a zero-quaternion image and every other image as
\* before), and prints one warning per zero-quaternion row.
C12_ZeroNormSkipsRecord ==
    (/\ call.fn \in {"read_camera_poses_from_database",
                     "read_global_poses_from_database"}
     /\ ret.op \in {"read_camera_poses", "read_global_poses"}
     /\ PoseReaderOn(StoreWithoutZeroRows).status = "ok")
    => /\ ret.status = "ok"
       /\ ret.poses = PoseReaderOn(StoreWithoutZeroRows).poses
       /\ \A i \in DOMAIN call.store.images :
             ZeroResolved(call.store.images[i])
             => PosesOf(ret.poses, call.store.images[i].image_id) = <<>>
       /\ ret.warnings =
             LET zero == SelectSeq(call.store.images, ZeroResolved)
             IN  [i \in DOMAIN zero |-> zero[i].name]

\* The global-pose reader has skipped a zero prior quaternion and kept
\* another row of the same table.
C12_Witness ==
    /\ call.fn = "read_global_poses_from_database"
    /\ ret.op = "read_global_poses"
    /\ ret.status = "ok"
    /\ ~(OptCols \subseteq call.store.columns)
    /\ Len(ret.warnings) = 1
    /\ Len(ret.poses) >= 1
    /\ call.store.images[1].image_id \notin
           {ret.poses[i].image_id : i \in DOMAIN ret.poses}

\* C13 as stated, for the store: the quaternion of every pose record that
\* read_camera_poses_from_database returns has unit norm.
C13_StoredQuaternionIsUnit ==
    ReturnedCameraPoses
    => \A i \in DOMAIN ret.poses :
          SquaredNorm(ret.poses[i].quaternion) = 1

(***************************************************************************)
(* The images file of a COLMAP model                                       *)
(*                                                                         *)
(* A binary file is its sequence of bytes.  A text file is its sequence of *)
(* lines, a line its sequence of characters (without the line break).      *)
(* Numbers of the file are integers: a float64 field is kept as the        *)
(* two's-complement pattern of its integer value and a decimal token as    *)
(* its digits, so that both files can carry the same numbers.              *)
(***************************************************************************)

\* Byte sizes of the struct format characters (little-endian, standard).
StructSize(c) ==
    CASE c = "c" -> 1
      [] c = "i" -> 4
      [] c = "d" -> 8
      [] c = "q" -> 8
      [] c = "Q" -> 8

RECURSIVE CalcSize(_)
CalcSize(fmt) ==
    IF Len(fmt) = 0 THEN 0 ELSE StructSize(Head(fmt)) + CalcSize(Tail(fmt))

\* The signed value of a two's-complement item.
Signed(item) ==
    IF item[Len(item)] >= 128
    THEN 0 - (LittleEndian([i \in DOMAIN item |-> 255 - item[i]]) + 1)
    ELSE LittleEndian(item)

UnpackField(c, item) ==
    CASE c = "c" -> item[1]
      [] c = "Q" -> LittleEndian(item)
      [] c \in {"i", "q", "d"} -> Signed(item)

RECURSIVE Unpack(_, _)
Unpack(fmt, data) ==
    IF Len(fmt) = 0 THEN <<>>
    ELSE LET n == StructSize(Head(fmt))
         IN  <<UnpackField(Head(fmt), SubSeq(data, 1, n))>>
             \o Unpack(Tail(fmt), SubSeq(data, n + 1, Len(data)))

Min(a, b) == IF a < b THEN a ELSE b

\* A variant that pads a short read with zero bytes instead of failing.
read_next_bytes_padding(stream, pos, num_bytes, fmt) ==
    LET data == SubSeq(stream, pos, Min(pos + num_bytes - 1, Len(stream)))
        padded == data \o [i \in 1 .. (CalcSize(fmt) - Len(data)) |-> 0]
    IN  [status |-> "ok", value |-> Unpack(fmt, padded),
         pos |-> pos + Len(data)]

\* read_next_bytes: fid.read(num_bytes) gives what is left when the file is
\* shorter, and struct.unpack raises struct.error unless the data has the
\* size of the format.  pos is the file position, from 1.
read_next_bytes(stream, pos, num_bytes, fmt) ==
    LET data == SubSeq(stream, pos, Min(pos + num_bytes - 1, Len(stream)))
    IN  IF Len(data) # CalcSize(fmt)
        THEN Raise("struct.error")
        ELSE [status |-> "ok", value |-> Unpack(fmt, data),
              pos |-> pos + Len(data)]

\* The characters of the model and their UTF-8 codes.
CodeOf(c) ==
    CASE c = " " -> 32
      [] c = "#" -> 35
      [] c = "-" -> 45
      [] c = "a" -> 97
      [] c = "b" -> 98

CharOf(code) ==
    CASE code = 32 -> " "
      [] code = 35 -> "#"
      [] code = 45 -> "-"
      [] code = 97 -> "a"
      [] code = 98 -> "b"
      [] OTHER -> "?"

\* The name loop of read_images_binary: bytes up to the zero byte.
RECURSIVE ReadName(_, _, _)
ReadName(stream, pos, name) ==
    LET c == read_next_bytes(stream, pos, 1, <<"c">>)
    IN  IF c.status = "raise" THEN c
        ELSE IF c.value[1] = 0
        THEN [status |-> "ok", value |-> name, pos |-> c.pos]
        ELSE ReadName(stream, c.pos, Append(name, CharOf(c.value[1])))

\* format_char_sequence="ddq" * num_points2D
RECURSIVE Repeat(_, _)
Repeat(fmt, n) == IF n = 0 THEN <<>> ELSE fmt \o Repeat(fmt, n - 1)

\* Every third element of elems from position first (elems[first-1::3]).
EveryThird(elems, first) ==
    [k \in 1 .. ((Len(elems) - first + 3) \div 3) |->
        elems[first + 3 * (k - 1)]]

\* One pass of the record loop of read_images_binary: `left' records to go.
RECURSIVE ReadBinaryRecords(_, _, _, _)
ReadBinaryRecords(stream, pos, left, images) ==
    IF left = 0 THEN Ok(images)
    ELSE
    LET props == read_next_bytes(stream, pos, 64,
                     <<"i", "d", "d", "d", "d", "d", "d", "d", "i">>)
    IN  IF props.status = "raise" THEN Raise(props.error)
        ELSE
        LET name == ReadName(stream, props.pos, <<>>)
        IN  IF name.status = "raise" THEN Raise(name.error)
            ELSE
            LET count == read_next_bytes(stream, name.pos, 8, <<"Q">>)
            IN  IF count.status = "raise" THEN Raise(count.error)
                ELSE
                LET num_points2D == count.value[1]
                    x_y_id_s == read_next_bytes(stream, count.pos,
                                    24 * num_points2D,
                                    Repeat(<<"d", "d", "q">>, num_points2D))
                IN  IF x_y_id_s.status = "raise" THEN Raise(x_y_id_s.error)
                    ELSE
                    LET xs == EveryThird(x_y_id_s.value, 1)
                        ys == EveryThird(x_y_id_s.value, 2)
                        image == [id |-> props.value[1],
                                  qvec |-> SubSeq(props.value, 2, 5),
                                  tvec |-> SubSeq(props.value, 6, 8),
                                  camera_id |-> props.value[9],
                                  name |-> name.value,
                                  xys |-> [k \in DOMAIN xs |-> <<xs[k], ys[k]>>],
                                  point3D_ids |->
                                      EveryThird(x_y_id_s.value, 3)]
                    IN  ReadBinaryRecords(stream, x_y_id_s.pos, left - 1,
                            (props.value[1] :> image) @@ images)

\* The empty dict.
EmptyMap == [k \in {} |-> {}]

\* read_images_binary: the record count, then that many records; an
\* exception leaves the function without a result.
read_images_binary(stream) ==
    LET num_reg_images == read_next_bytes(stream, 1, 8, <<"Q">>)
    IN  IF num_reg_images.status = "raise"
        THEN Raise(num_reg_images.error)
        ELSE ReadBinaryRecords(stream, num_reg_images.pos,
                               num_reg_images.value[1], EmptyMap)

Digits == <<"0", "1", "2", "3", "4", "5", "6", "7", "8", "9">>

IsDigit(c) == \E d \in DOMAIN Digits : Digits[d] = c

DigitValue(c) == (CHOOSE d \in DOMAIN Digits : Digits[d] = c) - 1

\* str.split(): the maximal runs of non-blank characters of a line.
RECURSIVE SplitFrom(_, _, _)
SplitFrom(line, tokens, current) ==
    IF Len(line) = 0
    THEN IF Len(current) = 0 THEN tokens ELSE Append(tokens, current)
    ELSE IF Head(line) = " "
    THEN SplitFrom(Tail(line),
                   IF Len(current) = 0 THEN tokens ELSE Append(tokens, current),
                   <<>>)
    ELSE SplitFrom(Tail(line), tokens, Append(current, Head(line)))

Split(line) == SplitFrom(line, <<>>, <<>>)

\* str.strip(), as far as the reader looks at it: the line from its first
\* non-blank character on.
RECURSIVE LStrip(_)
LStrip(line) ==
    IF Len(line) > 0 /\ Head(line) = " " THEN LStrip(Tail(line)) ELSE line

\* A token int() and float() both accept here: digits after an optional
\* minus sign.
IsNumber(tok) ==
    LET digits == IF Len(tok) > 0 /\ tok[1] = "-" THEN Tail(tok) ELSE tok
    IN  Len(digits) > 0 /\ \A i \in DOMAIN digits : IsDigit(digits[i])

RECURSIVE DigitsValue(_)
DigitsValue(digits) ==
    IF Len(digits) = 0 THEN 0
    ELSE 10 * DigitsValue(SubSeq(digits, 1, Len(digits) - 1))
         + DigitValue(digits[Len(digits)])

Number(tok) ==
    IF tok[1] = "-" THEN 0 - DigitsValue(Tail(tok)) ELSE DigitsValue(tok)

\* The image a header line and its observation line give, or the exception
\* raised on the way: ValueError from int()/float()/column_stack, IndexError
\* from elems[8] and elems[9].
TextImage(header, points) ==
    LET n == Len(header)
        xs == EveryThird(points, 1)
        ys == EveryThird(points, 2)
        ids == EveryThird(points, 3)
    IN  IF \E i \in 1 .. Min(8, n) : ~IsNumber(header[i])
        THEN Raise("ValueError")
        ELSE IF n < 9 THEN Raise("IndexError")
        ELSE IF ~IsNumber(header[9]) THEN Raise("ValueError")
        ELSE IF n < 10 THEN Raise("IndexError")
        ELSE IF \/ \E i \in DOMAIN points : ~IsNumber(points[i])
                \/ Len(xs) # Len(ys)
        THEN Raise("ValueError")
        ELSE Ok([id |-> Number(header[1]),
                 qvec |-> [k \in 1 .. 4 |-> Number(header[1 + k])],
                 tvec |-> [k \in 1 .. 3 |-> Number(header[5 + k])],
                 camera_id |-> Number(header[9]),
                 name |-> header[10],
                 xys |-> [k \in DOMAIN xs |-> <<Number(xs[k]), Number(ys[k])>>],
                 point3D_ids |-> [k \in DOMAIN ids |-> Number(ids[k])]])

\* The loop of read_images_text from line idx on: a line that is empty or
\* starts with # after stripping is passed over; any other line is a header
\* and the line after it, whatever it is, is its observation line.
RECURSIVE ReadTextLines(_, _, _)
ReadTextLines(lines, idx, images) ==
    IF idx > Len(lines) THEN Ok(images)
    ELSE
    LET line == LStrip(lines[idx])
    IN  IF Len(Split(line)) = 0 \/ line[1] = "#"
        THEN ReadTextLines(lines, idx + 1, images)
        ELSE
        LET points == IF idx + 1 > Len(lines) THEN <<>>
                      ELSE Split(lines[idx + 1])
            image == TextImage(Split(line), points)
        IN  IF image.status = "raise" THEN image
            ELSE ReadTextLines(lines, idx + 2,
                               (image.value.id :> image.value) @@ images)

\* read_images_text
read_images_text(lines) == ReadTextLines(lines, 1, EmptyMap)

(***************************************************************************)
(* The two encodings of a list of image records, as COLMAP writes them and *)
(* as the readers above take them apart.                                   *)
(***************************************************************************)

RECURSIVE LEBytes(_, _)
LEBytes(n, width) ==
    IF width = 0 THEN <<>> ELSE <<n % 256>> \o LEBytes(n \div 256, width - 1)

TwosComplement(v, width) ==
    IF v >= 0 THEN LEBytes(v, width)
    ELSE [i \in 1 .. width |-> 255 - LEBytes((0 - v) - 1, width)[i]]

PackField(c, v) ==
    CASE c = "c" -> <<v>>
      [] c = "Q" -> LEBytes(v, 8)
      [] c \in {"i", "q", "d"} -> TwosComplement(v, StructSize(c))

BinaryObservation(o) ==
    PackField("d", o[1]) \o PackField("d", o[2]) \o PackField("q", o[3])

BinaryImage(img) ==
    PackField("i", img.id)
    \o Flatten([k \in 1 .. 4 |-> PackField("d", img.qvec[k])])
    \o Flatten([k \in 1 .. 3 |-> PackField("d", img.tvec[k])])
    \o PackField("i", img.camera_id)
    \o [k \in DOMAIN img.name |-> CodeOf(img.name[k])] \o <<0>>
    \o PackField("Q", Len(img.obs))
    \o Flatten([k \in DOMAIN img.obs |-> BinaryObservation(img.obs[k])])

\* images.bin of a list of image records.
EncodeBinary(records) ==
    PackField("Q", Len(records))
    \o Flatten([k \in DOMAIN records |-> BinaryImage(records[k])])

RECURSIVE Decimal(_)
Decimal(n) ==
    IF n < 0 THEN <<"-">> \o Decimal(0 - n)
    ELSE IF n < 10 THEN <<Digits[n + 1]>>
    ELSE Decimal(n \div 10) \o <<Digits[(n % 10) + 1]>>

RECURSIVE Join(_)
Join(tokens) ==
    IF Len(tokens) = 0 THEN <<>>
    ELSE IF Len(tokens) = 1 THEN tokens[1]
    ELSE tokens[1] \o <<" ">> \o Join(Tail(tokens))

TextHeaderLine(img) ==
    Join(<<Decimal(img.id)>>
         \o [k \in 1 .. 4 |-> Decimal(img.qvec[k])]
         \o [k \in 1 .. 3 |-> Decimal(img.tvec[k])]
         \o <<Decimal(img.camera_id), img.name>>)

TextPointsLine(img) ==
    Join(Flatten([k \in DOMAIN img.obs |->
            <<Decimal(img.obs[k][1]), Decimal(img.obs[k][2]),
              Decimal(img.obs[k][3])>>]))

\* images.txt of a list of image records: a comment line, then two lines
\* per image.
EncodeText(records) ==
    << <<"#", " ", "a">> >>
    \o Flatten([k \in DOMAIN records |->
          <<TextHeaderLine(records[k]), TextPointsLine(records[k])>>])

\* Most observations of an image record.
MaxObs == 2

\* Most image records of a model file.
MaxModelImages == 2

Observations == { <<1, 2, 0 - 1>>, <<4, 5, 7>> }

ObsLists == UNION { [1 .. n -> Observations] : n \in 0 .. MaxObs }

\* Image names: one word, and one with a blank in it.
Names == { <<"a">>, <<"a", "b">>, <<"a", " ", "b">> }

\* The first record of a file varies in every field that the two readers
\* treat differently; the later ones in their observations.
ModelImages(i) ==
    IF i = 1
    THEN { [id |-> 1, qvec |-> q, tvec |-> <<0 - 3, 12, 5>>, camera_id |-> 1,
            name |-> nm, obs |-> obs] :
              q \in {UnitQ, <<0, 0 - 1, 2, 10>>}, nm \in Names,
              obs \in ObsLists }
    ELSE { [id |-> i, qvec |-> UnitQ, tvec |-> <<0, 0, 0>>, camera_id |-> 2,
            name |-> <<"b">>, obs |-> obs] :
              obs \in {<<>>, << <<4, 5, 7>> >>} }

RECURSIVE ContentsOfLen(_)
ContentsOfLen(n) ==
    IF n = 0 THEN { <<>> }
    ELSE { Append(recs, r) : recs \in ContentsOfLen(n - 1), r \in ModelImages(n) }

ModelContents == UNION { ContentsOfLen(n) : n \in 0 .. MaxModelImages }

\* The contents whose binary file is cut short at every length: the first
\* record has each number of observations, the later ones none or one.
TruncatedContents ==
    { recs \in ModelContents :
        Len(recs) > 0 =>
            /\ recs[1].qvec = UnitQ
            /\ recs[1].name = <<"a", "b">>
            /\ \A k \in 1 .. Len(recs[1].obs) : recs[1].obs[k] = <<1, 2, 0 - 1>> }

ModelCalls ==
    { [fn |-> "read_images", records |-> recs, bin |-> EncodeBinary(recs),
       txt |-> EncodeText(recs)] : recs \in ModelContents }
    \cup UNION { LET whole == EncodeBinary(recs)
                 IN  { [fn |-> "read_images_binary", records |-> recs,
                        bin |-> SubSeq(whole, 1, cut)] :
                         cut \in 0 .. (Len(whole) - 1) } :
                 recs \in TruncatedContents }

InitModel ==
    /\ call \in ModelCalls
    /\ ret = NoRet
    /\ openConns = 0

ReadImagesBinary ==
    /\ call.fn \in {"read_images", "read_images_binary"}
    /\ ret.op = "none"
    /\ ret' = [op |-> "read_images_binary",
               binary |-> read_images_binary(call.bin)]
    /\ UNCHANGED <<call, openConns>>

ReadImagesText ==
    /\ call.fn = "read_images"
    /\ ret.op = "read_images_binary"
    /\ ret' = [op |-> "read_images_text", binary |-> ret.binary,
               text |-> read_images_text(call.txt)]
    /\ UNCHANGED <<call, openConns>>

NextModel == ReadImagesBinary \/ ReadImagesText

SpecModel == InitModel /\ [][NextModel]_vars

\* C9 as stated: for every list of image records, names with a blank and
\* records without observations included, read_images_binary on the binary
\* file and read_images_text on the text file return the same map.
C9_BinaryTextEquivalence ==
    (call.fn = "read_images" /\ ret.op = "read_images_text")
    => /\ ret.binary.status = "ok"
       /\ ret.text.status = "ok"
       /\ ret.binary.value = ret.text.value

\* C10: a binary images file that ends before its declared record count or
\* a declared observation count is consumed makes read_images_binary raise;
\* no image map is returned.
C10_TruncatedBinaryFails ==
    (call.fn = "read_images_binary" /\ ret.op = "read_images_binary")
    => ret.binary.status = "raise"

\* A file cut inside the name of its first record (8 bytes of count, 64 of
\* header, one of the name) has been read and has raised.
C10_Witness ==
    /\ call.fn = "read_images_binary"
    /\ ret.op = "read_images_binary"
    /\ Len(call.bin) = 8 + 64 + 1
    /\ Len(call.records) = 2
    /\ ret.binary.status = "raise"

\* A text file with one more line after its first pos lines.
InsertLine(lines, pos, line) ==
    SubSeq(lines, 1, pos) \o <<line>> \o SubSeq(lines, pos + 1, Len(lines))

\* The lines put into a text file: comment lines, bare or indented, and
\* lines that are empty or blank.
InsertedLines == { <<"#">>, <<"#", " ", "c">>, <<" ", "#">>, <<>>, <<" ">> }

\* The contents read as text: one-word names.
CommentedContents ==
    { recs \in ModelContents : \A k \in DOMAIN recs : Len(recs[k].name) = 1 }

\* A text images file, and a line to put in at one of its positions.
CommentCalls ==
    UNION { LET txt == EncodeText(recs)
            IN  { [fn |-> "read_images_text", records |-> recs, txt |-> txt,
                   pos |-> pos, line |-> line] :
                    pos \in 0 .. Len(txt), line \in InsertedLines } :
            recs \in CommentedContents }

InitComments ==
    /\ call \in CommentCalls
    /\ ret = NoRet
    /\ openConns = 0

\* The file as written is read.
ReadPlainText ==
    /\ call.fn = "read_images_text"
    /\ ret.op = "none"
    /\ ret' = [op |-> "read_plain", plain |-> read_images_text(call.txt)]
    /\ UNCHANGED <<call, openConns>>

\* The file with the line put in is read.
ReadCommentedText ==
    /\ call.fn = "read_images_text"
    /\ ret.op = "read_plain"
    /\ ret' = [op |-> "read_commented", plain |-> ret.plain,
               commented |-> read_images_text(
                                InsertLine(call.txt, call.pos, call.line))]
    /\ UNCHANGED <<call, openConns>>

NextComments == ReadPlainText \/ ReadCommentedText

SpecComments == InitComments /\ [][NextComments]_vars

\* C23 as stated: a line that begins with # or is empty, put in at any
\* position of a text images file, between an image's header line and its
\* observation line included, leaves the map read_images_text returns
\* unchanged.
C23_CommentLinesSkipped ==
    (call.fn = "read_images_text" /\ ret.op = "read_commented")
    => /\ ret.plain.status = "ok"
       /\ ret.commented.status = "ok"
       /\ ret.commented.value = ret.plain.value

(***************************************************************************)
(* The model folder and the global pose files                              *)
(*                                                                         *)
(* A model folder is the set of model files it holds and the content of    *)
(* its images.bin and images.txt.  The global pose file is kept as in      *)
(* export_global_poses_txt above: the count line, then one line of fields  *)
(* per pose, a matrix entry as <<numerator, denominator>>.                 *)
(***************************************************************************)

\* qvec2rotmat of export_global_poses_from_model: the matrix is filled from
\* the components as read, without normalization.
qvec2rotmat(qvec) ==
    [num |->
        << << 1 - 2 * qvec[3] * qvec[3] - 2 * qvec[4] * qvec[4],
              2 * qvec[2] * qvec[3] - 2 * qvec[1] * qvec[4],
              2 * qvec[4] * qvec[2] + 2 * qvec[1] * qvec[3] >>,
           << 2 * qvec[2] * qvec[3] + 2 * qvec[1] * qvec[4],
              1 - 2 * qvec[2] * qvec[2] - 2 * qvec[4] * qvec[4],
              2 * qvec[3] * qvec[4] - 2 * qvec[1] * qvec[2] >>,
           << 2 * qvec[4] * qvec[2] - 2 * qvec[1] * qvec[3],
              2 * qvec[3] * qvec[4] + 2 * qvec[1] * qvec[2],
              1 - 2 * qvec[2] * qvec[2] - 2 * qvec[3] * qvec[3] >> >>,
     den |-> 1]

ModelFile(stem, ext) == [stem |-> stem, ext |-> ext]

\* A variant that looks for the images file only.
detect_model_format_images_only(folder, ext) ==
    ModelFile("images", ext) \in folder.files

\* detect_model_format: both companion files of the extension are files.
detect_model_format(folder, ext) ==
    /\ ModelFile("cameras", ext) \in folder.files
    /\ ModelFile("images", ext) \in folder.files

\* read_images_from_model: binary first, text second, else ValueError; the
\* images file of the detected extension is read with its reader, whose
\* exception leaves the function.
read_images_from_model(folder) ==
    IF detect_model_format(folder, ".bin")
    THEN [ext |-> ".bin"] @@ read_images_binary(folder.bin)
    ELSE IF detect_model_format(folder, ".txt")
    THEN [ext |-> ".txt"] @@ read_images_text(folder.txt)
    ELSE Raise("ValueError")

\* images.values(): the dict's images in insertion order.  The files of the
\* model list their images by ascending id, so that is the order of the ids.
RECURSIVE ImageValues(_)
ImageValues(images) ==
    IF DOMAIN images = {} THEN <<>>
    ELSE LET first == CHOOSE k \in DOMAIN images :
                          \A other \in DOMAIN images : k <= other
         IN  <<images[first]>>
             \o ImageValues([k \in DOMAIN images \ {first} |-> images[k]])

\* A variant that writes the matrix row by row.
model_export_global_poses_txt_rowmajor(images) ==
    << <<Cardinality(DOMAIN images)>> >> \o
    [i \in DOMAIN ImageValues(images) |->
        LET image == ImageValues(images)[i]
            R == qvec2rotmat(image.qvec)
        IN  << image.name,
               <<R.num[1][1], R.den>>, <<R.num[1][2], R.den>>,
               <<R.num[1][3], R.den>>, <<R.num[2][1], R.den>>,
               <<R.num[2][2], R.den>>, <<R.num[2][3], R.den>>,
               <<R.num[3][1], R.den>>, <<R.num[3][2], R.den>>,
               <<R.num[3][3], R.den>>,
               image.tvec[1], image.tvec[2], image.tvec[3] >>]

\* export_global_poses_txt of export_global_poses_from_model.
model_export_global_poses_txt(images) ==
    << <<Cardinality(DOMAIN images)>> >> \o
    [i \in DOMAIN ImageValues(images) |->
        LET image == ImageValues(images)[i]
            R == qvec2rotmat(image.qvec)
        IN  << image.name,
               <<R.num[1][1], R.den>>, <<R.num[2][1], R.den>>,
               <<R.num[3][1], R.den>>, <<R.num[1][2], R.den>>,
               <<R.num[2][2], R.den>>, <<R.num[3][2], R.den>>,
               <<R.num[1][3], R.den>>, <<R.num[2][3], R.den>>,
               <<R.num[3][3], R.den>>,
               image.tvec[1], image.tvec[2], image.tvec[3] >>]

\* main of export_global_poses_from_model after the read: a failed read
\* exits 1; no image returns without a file; otherwise the file is written.
model_main(read) ==
    IF read.status = "raise" THEN [exit |-> 1, file |-> <<>>]
    ELSE IF DOMAIN read.value = {} THEN [exit |-> 0, file |-> <<>>]
    ELSE [exit |-> 0, file |-> model_export_global_poses_txt(read.value)]

ModelFileNames ==
    { ModelFile(stem, ext) : stem \in {"cameras", "images"},
                             ext \in {".bin", ".txt"} }

FolderNames == << <<"a">>, <<"b">>, <<"a", "b">>, <<"b", "a">> >>

\* The image records of the folders: image i with a unit quaternion or the
\* quaternion (1,1,1,1), no observations.
FolderImages(i) ==
    { [id |-> i, qvec |-> q, tvec |-> <<0 - 3, 12, 5 + i>>, camera_id |-> 1,
       name |-> FolderNames[i], obs |-> <<>>] : q \in {UnitQ, LongQ} }

RECURSIVE FolderRecordsOfLen(_)
FolderRecordsOfLen(n) ==
    IF n = 0 THEN { <<>> }
    ELSE { Append(recs, r) : recs \in FolderRecordsOfLen(n - 1),
                             r \in FolderImages(n) }

FolderRecordLists ==
    UNION { FolderRecordsOfLen(n) : n \in 0 .. MaxModelImages }

EncodedRecordLists ==
    { [bin |-> EncodeBinary(recs), txt |-> EncodeText(recs)] :
        recs \in FolderRecordLists }

\* images.bin and images.txt of a folder are drawn independently, so that
\* the result tells which of the two was read.
FolderCalls ==
    { [fn |-> "export_global_poses_from_model",
       folder |-> [files |-> fs, bin |-> b.bin, txt |-> t.txt]] :
        fs \in SUBSET ModelFileNames,
        b \in EncodedRecordLists, t \in EncodedRecordLists }

GlobalPoseCalls ==
    [fn : {"read_global_poses_from_database"}, store : PoseStores]

InitPoseFiles ==
    /\ call \in FolderCalls \cup GlobalPoseCalls
    /\ ret = NoRet
    /\ openConns = 0

ReadImagesFromModel ==
    /\ call.fn = "export_global_poses_from_model"
    /\ ret.op = "none"
    /\ ret' = [op |-> "read_images_from_model"]
                 @@ read_images_from_model(call.folder)
    /\ UNCHANGED <<call, openConns>>

ExportModelPoses ==
    /\ call.fn = "export_global_poses_from_model"
    /\ ret.op = "read_images_from_model"
    /\ ret' = [op |-> "export_global_poses_from_model", read |-> ret]
                 @@ model_main(ret)
    /\ UNCHANGED <<call, openConns>>

NextPoseFiles == ReadGlobalPoses \/ ReadImagesFromModel \/ ExportModelPoses

SpecPoseFiles == InitPoseFiles /\ [][NextPoseFiles]_vars

\* C11: read_images_from_model reads images.bin with the binary reader
\* exactly when cameras.bin and images.bin both exist; otherwise images.txt
\* with the text reader exactly when cameras.txt and images.txt both exist;
\* otherwise it raises.  Every other combination of files, a mixed pair
\* included, is rejected.
C11_FormatDetection ==
    ret.op = "read_images_from_model"
    => LET has(stem, ext) == ModelFile(stem, ext) \in call.folder.files
       IN  IF has("cameras", ".bin") /\ has("images", ".bin")
           THEN /\ ret.ext = ".bin"
                /\ ret.status = "ok"
                /\ ret.value = read_images_binary(call.folder.bin).value
           ELSE IF has("cameras", ".txt") /\ has("images", ".txt")
           THEN /\ ret.ext = ".txt"
                /\ ret.status = "ok"
                /\ ret.value = read_images_text(call.folder.txt).value
           ELSE ret.status = "raise" /\ ret.error = "ValueError"

\* A folder holding cameras.bin and images.txt only has been rejected.
C11_Witness ==
    /\ ret.op = "read_images_from_model"
    /\ call.folder.files = {ModelFile("cameras", ".bin"),
                            ModelFile("images", ".txt")}
    /\ call.folder.bin # call.folder.txt
    /\ ret.status = "raise"

\* The global pose file a run has written, and the poses it was written
\* from as (name, matrix, translation), for both exporters.
FileWritten ==
    /\ ret.op \in {"read_global_poses", "export_global_poses_from_model"}
    /\ ret.file # <<>>

ExportedPoses ==
    IF ret.op = "read_global_poses"
    THEN [i \in DOMAIN ret.poses |->
            [name |-> ret.poses[i].image_name,
             R |-> ret.poses[i].rotation_matrix,
             t |-> ret.poses[i].translation]]
    ELSE LET images == ImageValues(ret.read.value)
         IN  [i \in DOMAIN images |->
                [name |-> images[i].name,
                 R |-> qvec2rotmat(images[i].qvec),
                 t |-> images[i].tvec]]

\* The matrix a pose line serializes: its k-th rotation field (k from 0) is
\* the entry of row k mod 3 and column k div 3.
LineMatrix(line) ==
    [r \in 1 .. 3 |-> [c \in 1 .. 3 |-> line[1 + (c - 1) * 3 + r]]]

\* C14 as stated: the matrix of every pose line of a written global pose
\* file is orthonormal, R * R^T = I (entries are numerators over one
\* denominator: the products of two rows sum to den^2 or to 0).
C14_WrittenMatrixOrthonormal ==
    FileWritten
    => \A n \in 2 .. Len(ret.file) :
          LET R == LineMatrix(ret.file[n])
              den == R[1][1][2]
          IN  \A i, j \in 1 .. 3 :
                 R[i][1][1] * R[j][1][1] + R[i][2][1] * R[j][2][1]
                   + R[i][3][1] * R[j][3][1]
                 = (IF i = j THEN den * den ELSE 0)

\* C18: in every written global pose file the count on the first line is
\* the number of pose lines after it, that is the number of poses given to
\* the exporter, and every such pose has exactly one line.
C18_CountLineMatchesPoseLines ==
    FileWritten
    => /\ ret.file[1] = <<Len(ret.file) - 1>>
       /\ Len(ret.file) - 1 = Len(ExportedPoses)
       /\ \A i \in DOMAIN ExportedPoses :
             Cardinality({n \in 2 .. Len(ret.file) :
                            ret.file[n][1] = ExportedPoses[i].name}) = 1

\* The store exporter has written a file of two poses.
C18_Witness ==
    /\ ret.op = "read_global_poses"
    /\ ret.file # <<>>
    /\ Len(ret.poses) = 2
    /\ ret.file[1] = <<2>>

\* C19: every pose line holds the name, then the nine matrix entries column
\* by column, the k-th (from 0) being R[k mod 3, k div 3], then tx ty tz.
C19_ColumnMajor ==
    FileWritten
    => \A i \in DOMAIN ExportedPoses :
          LET line == ret.file[i + 1]
              pose == ExportedPoses[i]
          IN  /\ Len(line) = 13
              /\ line[1] = pose.name
              /\ \A k \in 0 .. 8 :
                    line[2 + k] = << pose.R.num[(k % 3) + 1][(k \div 3) + 1],
                                     pose.R.den >>
              /\ <<line[11], line[12], line[13]>> = pose.t

\* The model exporter has written a matrix that is not symmetric.
C19_Witness ==
    /\ ret.op = "export_global_poses_from_model"
    /\ ret.file # <<>>
    /\ \E n \in 2 .. Len(ret.file) : ret.file[n][3] # ret.file[n][5]

(***************************************************************************)
(* Euler angles                                                            *)
(*                                                                         *)
(* A matrix is numerators over one denominator, as above.  The angles are  *)
(* kept as the expressions the source evaluates: atan2 of two entries, or  *)
(* the constant 0; sy, a square root, as the two entries under the root.   *)
(***************************************************************************)

\* The singularity threshold of rotation_matrix_to_euler_angles is
\* 1e-6 = 1 / EPS_DEN.
EPS_DEN == 1000000

Abs(n) == IF n < 0 THEN 0 - n ELSE n

Entry(R, i, j) == <<R.num[i][j], R.den>>

Negated(e) == <<0 - e[1], e[2]>>

\* sy = sqrt(R[0,0]^2 + R[1,0]^2)
Sy(R) == [sqrt_of_squares |-> <<Entry(R, 1, 1), Entry(R, 2, 1)>>]

Atan2(y, x) == [fn |-> "atan2", y |-> y, x |-> x]

ConstantZero == [fn |-> "constant", y |-> <<0, 1>>, x |-> <<0, 1>>]

\* sy < 1e-6, that is EPS_DEN * sqrt(a^2 + b^2) < den for the numerators a
\* and b of R[0,0] and R[1,0].  With k = den div EPS_DEN: an |a| or |b|
\* above k decides it (no), a sum of squares below k^2 decides it (yes), a
\* sum equal to k^2 leaves it to the remainder.  The matrices of the model
\* have a denominator below EPS_DEN or a multiple of it, where these cases
\* are all there is.
SyBelowEps(R) ==
    LET a == Abs(R.num[1][1])
        b == Abs(R.num[2][1])
        k == R.den \div EPS_DEN
        r == R.den % EPS_DEN
    IN  CASE a > k \/ b > k -> FALSE
          [] a <= k /\ b <= k /\ a * a + b * b < k * k -> TRUE
          [] a <= k /\ b <= k /\ a * a + b * b = k * k -> r > 0
          [] a <= k /\ b <= k /\ a * a + b * b > k * k /\ r = 0 -> FALSE

\* np.degrees([x, y, z])
Degrees(x, y, z) == [i \in 1 .. 3 |-> [degrees_of |-> <<x, y, z>>[i]]]

\* A variant without the singular branch.
rotation_matrix_to_euler_angles_standard(R) ==
    Degrees(Atan2(Entry(R, 3, 2), Entry(R, 3, 3)),
            Atan2(Negated(Entry(R, 3, 1)), Sy(R)),
            Atan2(Entry(R, 2, 1), Entry(R, 1, 1)))

\* rotation_matrix_to_euler_angles
rotation_matrix_to_euler_angles(R) ==
    LET sy == Sy(R)
        singular == SyBelowEps(R)
    IN  IF ~singular
        THEN Degrees(Atan2(Entry(R, 3, 2), Entry(R, 3, 3)),
                     Atan2(Negated(Entry(R, 3, 1)), sy),
                     Atan2(Entry(R, 2, 1), Entry(R, 1, 1)))
        ELSE Degrees(Atan2(Negated(Entry(R, 2, 3)), Entry(R, 2, 2)),
                     Atan2(Negated(Entry(R, 3, 1)), sy),
                     ConstantZero)

\* Largest magnitude of a quaternion component of the matrices below.
MaxQuat == 2

\* The matrices of the non-zero quaternions with small integer components.
QuaternionMatrices ==
    { quaternion_to_rotation_matrix(q).value :
        q \in { p \in [1 .. 4 -> (0 - MaxQuat) .. MaxQuat] :
                  SquaredNorm(p) # 0 } }

\* Matrices whose first column is at the threshold: R[0,0] = a / den and
\* R[1,0] = b / den with den around EPS_DEN.
ThresholdMatrices ==
    { [num |-> << <<a, 11, 12>>, <<b, 22, 23>>, <<31, 32, 33>> >>,
       den |-> den] :
        a \in {0 - 2, 0 - 1, 0, 1, 2}, b \in {0 - 1, 0, 1},
        den \in {EPS_DEN - 1, EPS_DEN, 2 * EPS_DEN, 3 * EPS_DEN} }

EulerCalls ==
    [fn : {"rotation_matrix_to_euler_angles"},
     R : QuaternionMatrices \cup ThresholdMatrices]

InitEuler ==
    /\ call \in EulerCalls
    /\ ret = NoRet
    /\ openConns = 0

EulerAngles ==
    /\ call.fn = "rotation_matrix_to_euler_angles"
    /\ ret.op = "none"
    /\ ret' = [op |-> "rotation_matrix_to_euler_angles",
               value |-> rotation_matrix_to_euler_angles(call.R)]
    /\ UNCHANGED <<call, openConns>>

NextEuler == EulerAngles

SpecEuler == InitEuler /\ [][NextEuler]_vars

\* sy < 1e-6 stated on the matrix of the call: with a denominator that is a
\* multiple m * EPS_DEN, the squares of the two numerators sum to less than
\* m^2; with a denominator below EPS_DEN, both numerators are 0.
SyIsBelowThreshold ==
    LET a == call.R.num[1][1]
        b == call.R.num[2][1]
        m == call.R.den \div EPS_DEN
    IN  IF call.R.den % EPS_DEN = 0 THEN a * a + b * b < m * m
        ELSE call.R.den < EPS_DEN /\ a = 0 /\ b = 0

\* C15: rotation_matrix_to_euler_angles takes the alternate branch exactly
\* when sy < 1e-6: yaw is then the constant 0 and roll atan2(-R12, R11);
\* otherwise roll is atan2(R21, R22) and yaw atan2(R10, R00); pitch is
\* atan2(-R20, sy) in both branches.
C15_GimbalLockBranch ==
    ret.op = "rotation_matrix_to_euler_angles"
    => LET R == call.R
           roll == ret.value[1].degrees_of
           pitch == ret.value[2].degrees_of
           yaw == ret.value[3].degrees_of
       IN  /\ pitch = Atan2(Negated(Entry(R, 3, 1)), Sy(R))
           /\ SyIsBelowThreshold
              => /\ yaw = ConstantZero
                 /\ roll = Atan2(Negated(Entry(R, 2, 3)), Entry(R, 2, 2))
           /\ ~SyIsBelowThreshold
              => /\ yaw = Atan2(Entry(R, 2, 1), Entry(R, 1, 1))
                 /\ roll = Atan2(Entry(R, 3, 2), Entry(R, 3, 3))

\* The alternate branch has been taken for a matrix with R00 = R10 = 0.
C15_Witness ==
    /\ ret.op = "rotation_matrix_to_euler_angles"
    /\ call.R \in QuaternionMatrices
    /\ call.R.num[1][1] = 0
    /\ call.R.num[2][1] = 0
    /\ ret.value[3].degrees_of = ConstantZero

(***************************************************************************)
(* The exporter programs                                                   *)
(*                                                                         *)
(* A run of a main is followed step by step in ret: pc is the step it has  *)
(* completed, printed the messages it has written to standard output (by   *)
(* their kind), files the output folder as a function from file name to    *)
(* content, writes the files it has opened for writing, in order, and exit *)
(* the exit status once pc is "done".                                      *)
(***************************************************************************)

\* os.path.splitext(name)[0]
StemOf(name) == name.stem

\* The file name export_matches_to_files derives from the two image names.
MatchFileName(match_data) ==
    <<"matches_">> \o StemOf(match_data.image_name1) \o <<"_">>
    \o StemOf(match_data.image_name2) \o <<".txt">>

\* The lines export_matches_to_files writes for one pair.
MatchFileLines(match_data) ==
    << <<match_data.camera_id1, match_data.camera_id2>> >>
    \o match_data.matches

\* export_matches_to_files: one open(filepath, 'w') per pair, in order; a
\* file written before under the same name is replaced.
RECURSIVE export_matches_to_files(_, _)
export_matches_to_files(matches_data, out) ==
    IF Len(matches_data) = 0 THEN out
    ELSE LET m == Head(matches_data)
             filename == MatchFileName(m)
         IN  export_matches_to_files(Tail(matches_data),
                 [files |-> (filename :> MatchFileLines(m)) @@ out.files,
                  writes |-> Append(out.writes,
                                [filename |-> filename,
                                 image_id1 |-> m.image_id1,
                                 image_id2 |-> m.image_id2,
                                 lines |-> MatchFileLines(m)])])

NoFiles == [files |-> EmptyMap, writes |-> <<>>]

\* The filter of main: [m for m in matches_data if len(m['matches']) >=
\* args.min_matches]
FilterByMatchCount(matches_data, min_matches) ==
    SelectSeq(matches_data, LAMBDA m : Len(m.matches) >= min_matches)

\* The stores of the match exporter: three images with keypoints, named
\* with three different stems or with one stem and three extensions (the
\* names of a store are unique, their stems need not be).
ExportExts == <<".jpg", ".png", ".bmp">>

ExportNames ==
    { [i \in 1 .. 3 |-> [stem |-> <<"img", i>>, ext |-> ".jpg"]],
      [i \in 1 .. 3 |-> [stem |-> <<"img", 1>>, ext |-> ExportExts[i]]] }

\* The matches rows of a pair: one, two or three index pairs inside the
\* keypoints; two index pairs of which the second points outside them; a
\* 7-byte blob.
ExportPairMatches(ids) ==
    { MatchesRow(ids, 1, Some(ArrayBlob(<< <<0, 1>> >>))),
      MatchesRow(ids, 2, Some(ArrayBlob(<< <<0, 1>>, <<1, 0>> >>))),
      MatchesRow(ids, 3, Some(ArrayBlob(<< <<1, 1>>, <<0, 0>>, <<0, 1>> >>))),
      MatchesRow(ids, 2, Some(ArrayBlob(<< <<0, 1>>, <<1, 9>> >>))),
      MatchesRow(ids, 1, Some(SubSeq(ArrayBlob(<< <<0, 1>> >>), 1, 7))) }

ExportedPairs == { <<1, 2>>, <<2, 3>>, <<1, 3>> }

RECURSIVE ExportMatchTablesOfLen(_)
ExportMatchTablesOfLen(n) ==
    IF n = 0 THEN { <<>> }
    ELSE { Append(t, row) :
             t \in ExportMatchTablesOfLen(n - 1),
             row \in UNION { ExportPairMatches(ids) : ids \in ExportedPairs } }

ExportMatchTables ==
    { t \in UNION { ExportMatchTablesOfLen(n) : n \in 0 .. MaxPairs } :
        \A i, j \in DOMAIN t : i # j => t[i].pair_id # t[j].pair_id }

ExportStore(names, matches) ==
    [MatchStore(AllTables, GoodKeypoints(1), matches) EXCEPT
        !.images = [i \in 1 .. 3 |->
                       [KindRow("optimized", i) EXCEPT !.name = names[i]]]]

\* The runs of export_matches_from_db: the store and --min_matches.
MatchesMainCalls ==
    { [fn |-> "export_matches_from_db", store |-> ExportStore(names, m),
       min_matches |-> min] :
        names \in ExportNames, m \in ExportMatchTables, min \in 1 .. 3 }

\* main of export_matches_from_db, the read: an exception is caught by
\* main, which prints the failure and exits 1.
MatchesMainRead ==
    /\ call.fn = "export_matches_from_db"
    /\ ret.op = "none"
    /\ LET r == read_database_matches(call.store)
       IN  /\ ret' = IF r.status = "raise"
                     THEN [op |-> "export_matches_from_db", pc |-> "done",
                           exit |-> 1, printed |-> <<"failed">>,
                           matches_data |-> <<>>, filtered_matches |-> <<>>,
                           files |-> EmptyMap, writes |-> <<>>]
                     ELSE [op |-> "export_matches_from_db", pc |-> "read",
                           exit |-> 0, printed |-> <<>>,
                           matches_data |-> r.matches_data,
                           filtered_matches |-> <<>>,
                           files |-> EmptyMap, writes |-> <<>>]
           /\ openConns' = openConns + Leaked(r)
    /\ UNCHANGED call

\* The filter: with no pair left main prints a warning and returns.
MatchesMainFilter ==
    /\ ret.op = "export_matches_from_db"
    /\ ret.pc = "read"
    /\ LET filtered == FilterByMatchCount(ret.matches_data, call.min_matches)
           note == IF Len(filtered) < Len(ret.matches_data)
                   THEN <<"filtered">> ELSE <<>>
       IN  ret' = IF Len(filtered) = 0
                  THEN [ret EXCEPT !.pc = "done",
                                   !.printed = @ \o note \o <<"warning">>]
                  ELSE [ret EXCEPT !.pc = "filtered",
                                   !.printed = @ \o note,
                                   !.filtered_matches = filtered]
    /\ UNCHANGED <<call, openConns>>

MatchesMainExport ==
    /\ ret.op = "export_matches_from_db"
    /\ ret.pc = "filtered"
    /\ LET out == export_matches_to_files(ret.filtered_matches, NoFiles)
       IN  ret' = [ret EXCEPT !.pc = "exported",
                              !.printed = @ \o <<"exported">>,
                              !.files = out.files,
                              !.writes = out.writes]
    /\ UNCHANGED <<call, openConns>>

MatchesMainSummary ==
    /\ ret.op = "export_matches_from_db"
    /\ ret.pc = "exported"
    /\ ret' = [ret EXCEPT !.pc = "done",
                          !.printed = @ \o <<"statistics", "usage">>]
    /\ UNCHANGED <<call, openConns>>

\* export_poses_txt: four comment lines, then one line of fields per pose.
export_poses_txt(poses_data) ==
    << <<"#">>, <<"#">>, <<"#">>, <<"#">> >> \o
    [i \in DOMAIN poses_data |->
        LET pose == poses_data[i]
        IN  <<pose.image_name, IF pose.is_registered THEN 1 ELSE 0>>
            \o pose.quaternion \o pose.translation
            \o [k \in 1 .. 3 |-> <<pose.camera_center[k],
                                   pose.rotation_matrix.den>>]
            \o rotation_matrix_to_euler_angles(pose.rotation_matrix)]

\* export_poses_csv: the header line, then one line of fields per pose.
export_poses_csv(poses_data) ==
    << <<"image_name", "camera_id", "is_registered">> >> \o
    [i \in DOMAIN poses_data |->
        LET pose == poses_data[i]
        IN  <<pose.image_name, pose.camera_id,
              IF pose.is_registered THEN 1 ELSE 0>>
            \o pose.quaternion \o pose.translation
            \o [k \in 1 .. 3 |-> <<pose.camera_center[k],
                                   pose.rotation_matrix.den>>]
            \o rotation_matrix_to_euler_angles(pose.rotation_matrix)]

\* Whether json.dump accepts the camera map: the params of every camera is
\* a numpy array, which the default encoder rejects with TypeError; the
\* other values are numbers, strings, booleans and lists.
JsonSerializable(cameras) == Len(cameras) = 0

\* export_poses_json: the document of the cameras, the poses and the
\* metadata block.  The file is opened for writing before json.dump runs,
\* so a failing dump leaves a file with the part written before the
\* failure.
export_poses_json(poses_data, cameras) ==
    IF ~JsonSerializable(cameras)
    THEN Raise("TypeError") @@ [written |-> [partial |-> TRUE]]
    ELSE Ok([cameras |-> cameras, poses |-> poses_data,
             metadata |->
                [total_images |-> Len(poses_data),
                 registered_images |->
                    Len(SelectSeq(poses_data,
                                  LAMBDA pose : pose.is_registered)),
                 coordinate_system |->
                    "COLMAP (right-handed coordinate system)",
                 quaternion_format |-> "w,x,y,z",
                 translation_description |->
                    "Translation from world coordinate system to camera coordinate system"]])

\* The files main of export_camera_poses_from_db writes for --format.
CameraPoseFiles(format, poses_data, cameras) ==
    (IF format \in {"txt", "all"}
     THEN "camera_poses.txt" :> export_poses_txt(poses_data) ELSE EmptyMap)
    @@ (IF format \in {"csv", "all"}
        THEN "camera_poses.csv" :> export_poses_csv(poses_data)
        ELSE EmptyMap)
    @@ (IF format \in {"json", "all"}
        THEN LET json == export_poses_json(poses_data, cameras)
             IN  "camera_poses.json" :>
                    (IF json.status = "ok" THEN json.value ELSE json.written)
        ELSE EmptyMap)

\* The runs of export_camera_poses_from_db: the store, --format and
\* --registered_only.
PosesMainCalls ==
    { [fn |-> "export_camera_poses_from_db", store |-> store,
       format |-> format, registered_only |-> only] :
        store \in { PoseStore(AllTables, FullCols, GoodCameras, imgs) :
                      imgs \in { t \in KindTables : Len(t) = 2 } }
                  \cup { PoseStore(AllTables \ {"cameras"}, FullCols, <<>>,
                                   <<KindRow("optimized", 1),
                                     KindRow("prior_only", 2)>>),
                         PoseStore(AllTables, FullCols, <<>>,
                                   <<KindRow("optimized", 1),
                                     KindRow("prior_only", 2)>>) },
        format \in {"txt", "csv", "json", "all"}, only \in BOOLEAN }

\* main of export_camera_poses_from_db, the read: an exception is caught
\* by main, which prints the failure and exits 1; with no pose main prints
\* a warning and returns.
PosesMainRead ==
    /\ call.fn = "export_camera_poses_from_db"
    /\ ret.op = "none"
    /\ LET r == read_camera_poses_from_database(call.store)
       IN  /\ ret' = IF r.status = "raise"
                     THEN [op |-> "export_camera_poses_from_db",
                           pc |-> "done", exit |-> 1,
                           printed |-> <<"failed">>, poses_data |-> <<>>,
                           cameras |-> <<>>, files |-> EmptyMap]
                     ELSE IF Len(r.poses) = 0
                     THEN [op |-> "export_camera_poses_from_db",
                           pc |-> "done", exit |-> 0,
                           printed |-> <<"warning">>, poses_data |-> <<>>,
                           cameras |-> r.cameras, files |-> EmptyMap]
                     ELSE [op |-> "export_camera_poses_from_db",
                           pc |-> "read", exit |-> 0, printed |-> <<>>,
                           poses_data |-> r.poses, cameras |-> r.cameras,
                           files |-> EmptyMap]
           /\ openConns' = openConns + Leaked(r)
    /\ UNCHANGED call

\* The --registered_only filter: with no pose left main prints a warning
\* and returns.
PosesMainFilter ==
    /\ ret.op = "export_camera_poses_from_db"
    /\ ret.pc = "read"
    /\ LET filtered == IF call.registered_only
                       THEN SelectSeq(ret.poses_data,
                                LAMBDA pose : pose.is_registered)
                       ELSE ret.poses_data
           note == IF call.registered_only THEN <<"filtered">> ELSE <<>>
       IN  ret' = IF Len(filtered) = 0
                  THEN [ret EXCEPT !.pc = "done", !.poses_data = filtered,
                                   !.printed = @ \o note \o <<"warning">>]
                  ELSE [ret EXCEPT !.pc = "filtered",
                                   !.poses_data = filtered,
                                   !.printed = @ \o note]
    /\ UNCHANGED <<call, openConns>>

\* The exports: txt, csv and json in this order, each when --format asks
\* for it.  An exception of export_poses_json is caught by main, which
\* prints the failure and exits 1.
PosesMainExport ==
    /\ ret.op = "export_camera_poses_from_db"
    /\ ret.pc = "filtered"
    /\ LET files == CameraPoseFiles(call.format, ret.poses_data,
                                    ret.cameras)
           failed == /\ call.format \in {"json", "all"}
                     /\ export_poses_json(ret.poses_data,
                                          ret.cameras).status = "raise"
       IN  ret' = IF failed
                  THEN [ret EXCEPT !.pc = "done", !.exit = 1,
                                   !.printed = @ \o <<"failed">>,
                                   !.files = files]
                  ELSE [ret EXCEPT !.pc = "exported",
                                   !.printed = @ \o <<"exported">>,
                                   !.files = files]
    /\ UNCHANGED <<call, openConns>>

PosesMainSummary ==
    /\ ret.op = "export_camera_poses_from_db"
    /\ ret.pc = "exported"
    /\ ret' = [ret EXCEPT !.pc = "done",
                          !.printed = @ \o <<"statistics", "usage">>]
    /\ UNCHANGED <<call, openConns>>

InitExport ==
    /\ call \in MatchesMainCalls \cup PosesMainCalls
    /\ ret = NoRet
    /\ openConns = 0

NextExport ==
    \/ MatchesMainRead
    \/ MatchesMainFilter
    \/ MatchesMainExport
    \/ MatchesMainSummary
    \/ PosesMainRead
    \/ PosesMainFilter
    \/ PosesMainExport
    \/ PosesMainSummary

SpecExport == InitExport /\ [][NextExport]_vars

\* The pairs of the run whose match count reaches --min_matches, and those
\* below it.
QualifyingPairs ==
    SelectSeq(ret.matches_data,
              LAMBDA m : Len(m.matches) >= call.min_matches)

\* C16 as stated: once export_matches_to_files has run, the output folder
\* holds as many files as there are qualifying pairs, one opened per pair,
\* and none belongs to a pair below the minimum alone.
C16_OneFilePerQualifyingPair ==
    (ret.op = "export_matches_from_db" /\ ret.pc \in {"exported", "done"}
       /\ ret.exit = 0)
    => /\ Len(ret.writes) = Len(QualifyingPairs)
       /\ Cardinality(DOMAIN ret.files) = Len(QualifyingPairs)

\* The index pairs a matches row stores, in stored order.
StoredIndexPairs(row) ==
    LET pairs == blob_to_array(row.data, UINT32_SIZE, 2).value
    IN  [i \in DOMAIN pairs |->
            <<LittleEndian(pairs[i][1]), LittleEndian(pairs[i][2])>>]

\* The keypoints of an image of the store of the call.
KeypointsOf(image_id) ==
    LET row == Val(Lookup(call.store.keypoints, "image_id", image_id))
    IN  blob_to_array(row.data, FLOAT32_SIZE, row.cols).value

\* C17 as stated: every file the exporter writes holds the line of the two
\* camera ids and then one line per index pair stored in the pair's
\* matches row, in stored order: line i the (x, y) of keypoint idx1_i of
\* image 1 and of keypoint idx2_i of image 2.
C17_MatchFileContent ==
    (ret.op = "export_matches_from_db" /\ ret.pc \in {"exported", "done"})
    => \A w \in DOMAIN ret.writes :
          LET written == ret.writes[w]
              row == Val(Lookup(call.store.matches, "pair_id",
                         image_ids_to_pair_id(written.image_id1,
                                              written.image_id2)))
              stored == StoredIndexPairs(row)
              kpts1 == KeypointsOf(written.image_id1)
              kpts2 == KeypointsOf(written.image_id2)
          IN  /\ Len(written.lines) = 1 + Len(stored)
              /\ written.lines[1] =
                    << Val(Lookup(call.store.images, "image_id",
                                  written.image_id1)).camera_id,
                       Val(Lookup(call.store.images, "image_id",
                                  written.image_id2)).camera_id >>
              /\ \A i \in DOMAIN stored :
                    /\ stored[i][1] < Len(kpts1)
                    /\ stored[i][2] < Len(kpts2)
                    /\ written.lines[i + 1] =
                          << kpts1[stored[i][1] + 1][1],
                             kpts1[stored[i][1] + 1][2],
                             kpts2[stored[i][2] + 1][1],
                             kpts2[stored[i][2] + 1][2] >>

\* C20 as stated: a run of export_camera_poses_from_db or of
\* export_matches_from_db that has ended without a fatal error has printed
\* its statistics summary.
C20_SummaryAlwaysPrinted ==
    (ret.op \in {"export_camera_poses_from_db", "export_matches_from_db"}
       /\ ret.pc = "done" /\ ret.exit = 0)
    => \E i \in DOMAIN ret.printed : ret.printed[i] = "statistics"

(***************************************************************************)
(* Exit status of the global pose exporters                                *)
(*                                                                         *)
(* A run of one of the two programs is one step: the path check, the read  *)
(* and the export.  exit is the status the process ends with.              *)
(***************************************************************************)

\* main of export_global_poses_from_db: a missing database file exits 1
\* before anything is read; an exception of the read is caught and exits 1;
\* an empty pose list prints a warning and returns; otherwise the file is
\* written and the statistics are printed.
global_poses_from_db_main(exists, store) ==
    IF ~exists
    THEN [exit |-> 1, printed |-> <<"error">>, file |-> <<>>,
          closed |-> TRUE]
    ELSE
    LET r == read_global_poses_from_database(store)
    IN  IF r.status = "raise"
        THEN [exit |-> 1, printed |-> <<"failed">>, file |-> <<>>,
              closed |-> r.closed]
        ELSE IF Len(r.poses) = 0
        THEN [exit |-> 0, printed |-> <<"warning">>, file |-> <<>>,
              closed |-> r.closed]
        ELSE [exit |-> 0, printed |-> <<"exported", "statistics">>,
              file |-> export_global_poses_txt(r.poses),
              closed |-> r.closed]

\* main of export_global_poses_from_model with --model_folder: a missing
\* folder exits 1; then the read and the export of model_main.
global_poses_from_model_main(exists, folder) ==
    IF ~exists THEN [exit |-> 1, file |-> <<>>]
    ELSE model_main(read_images_from_model(folder))

\* The runs of export_global_poses_from_db: the file exists or not.
DbMainCalls ==
    [fn : {"export_global_poses_from_db"}, exists : BOOLEAN,
     store : PoseStores]

\* The binary files of one image record, cut short at every length.
CutBinaries ==
    UNION { LET whole == EncodeBinary(recs)
            IN  { SubSeq(whole, 1, cut) : cut \in 0 .. (Len(whole) - 1) } :
            recs \in FolderRecordsOfLen(1) }

\* The runs of export_global_poses_from_model: the folder exists or not,
\* holds any of the model files, and its images.bin is whole or cut short.
ModelMainCalls ==
    { [fn |-> "export_global_poses_from_model", exists |-> e,
       truncated |-> FALSE,
       folder |-> [files |-> fs, bin |-> b.bin, txt |-> b.txt]] :
        e \in BOOLEAN, fs \in SUBSET ModelFileNames,
        b \in EncodedRecordLists }
    \cup { [fn |-> "export_global_poses_from_model", exists |-> TRUE,
            truncated |-> TRUE,
            folder |-> [files |-> ModelFileNames, bin |-> b,
                        txt |-> <<>>]] : b \in CutBinaries }

InitExit ==
    /\ call \in DbMainCalls \cup ModelMainCalls
    /\ ret = NoRet
    /\ openConns = 0

GlobalPosesFromDbMain ==
    /\ call.fn = "export_global_poses_from_db"
    /\ ret.op = "none"
    /\ LET r == global_poses_from_db_main(call.exists, call.store)
       IN  /\ ret' = [op |-> "export_global_poses_from_db"] @@ r
           /\ openConns' = openConns + Leaked(r)
    /\ UNCHANGED call

GlobalPosesFromModelMain ==
    /\ call.fn = "export_global_poses_from_model"
    /\ ret.op = "none"
    /\ ret' = [op |-> "export_global_poses_from_model"]
                 @@ global_poses_from_model_main(call.exists, call.folder)
    /\ UNCHANGED <<call, openConns>>

NextExit == GlobalPosesFromDbMain \/ GlobalPosesFromModelMain

SpecExit == InitExit /\ [][NextExit]_vars

\* The store of the run has neither the prior nor the optimized pose
\* columns (an images table that is missing has no column at all).
LacksPoseColumns(store) ==
    LET columns == IF "images" \in store.tables THEN store.columns ELSE {}
    IN  ~(PriorQCols \subseteq columns) /\ ~(OptCols \subseteq columns)

\* The fatal conditions of a run: the store file or the model folder is
\* missing, the store lacks the pose columns, the folder holds no complete
\* pair of model files, the images.bin that is read is cut short.
FatalCondition ==
    \/ ~call.exists
    \/ /\ call.fn = "export_global_poses_from_db"
       /\ LacksPoseColumns(call.store)
    \/ /\ call.fn = "export_global_poses_from_model"
       /\ ~detect_model_format(call.folder, ".bin")
       /\ ~detect_model_format(call.folder, ".txt")
    \/ /\ call.fn = "export_global_poses_from_model"
       /\ call.truncated

\* C21 as stated: a run of export_global_poses_from_db or of
\* export_global_poses_from_model in which a fatal condition occurred ends
\* with a non-zero exit status.
C21_FatalExitsNonZero ==
    (ret.op \in {"export_global_poses_from_db",
                 "export_global_poses_from_model"} /\ FatalCondition)
    => ret.exit # 0

(***************************************************************************)
(* The store file under read operations                                    *)
(*                                                                         *)
(* The store file of a run is there or not, and holds a store when it is.  *)
(* ret.file is the file after the operations done so far, ret.reads their  *)
(* number.                                                                 *)
(***************************************************************************)

\* Most read operations of a run.
MaxReads == 2

\* A database file that sqlite has just created: no table, no row.
EmptyStore == PoseStore({}, {}, <<>>, <<>>)

\* sqlite3.connect(database_path): the default open mode creates the file
\* when it is missing; a file that is there is opened as it is.
sqlite3_connect(file) ==
    IF file.exists THEN file ELSE [exists |-> TRUE, store |-> EmptyStore]

\* The store files of the runs: stores with poses, stores with matches, and
\* a path with no file.
ReadCalls ==
    { [fn |-> "read_operations", exists |-> TRUE, store |-> store] :
        store \in { PoseStore(AllTables, FullCols, GoodCameras, imgs) :
                      imgs \in { t \in KindTables : Len(t) = 1 } }
                  \cup { m \in MatchStores : Len(m.matches) = 1 } }
    \cup { [fn |-> "read_operations", exists |-> FALSE,
            store |-> EmptyStore] }

InitReads ==
    /\ call \in ReadCalls
    /\ ret = NoRet
    /\ openConns = 0

CurrentFile ==
    IF ret.op = "none" THEN [exists |-> call.exists, store |-> call.store]
    ELSE ret.file

ReadsDone == IF ret.op = "none" THEN 0 ELSE ret.reads

LoaderOpen == ret.op # "none" /\ ret.loader

\* One of the three reader functions is called with the path: it connects,
\* runs its SELECT statements and returns or raises.
ReaderOnPath(fn, r, file) ==
    /\ ret' = [op |-> fn, file |-> file, reads |-> ReadsDone + 1,
               loader |-> LoaderOpen, status |-> r.status]
    /\ openConns' = openConns + Leaked(r)
    /\ UNCHANGED call

PathReadDatabaseMatches ==
    /\ call.fn = "read_operations"
    /\ ReadsDone < MaxReads
    /\ LET file == sqlite3_connect(CurrentFile)
       IN  ReaderOnPath("read_database_matches",
                        read_database_matches(file.store), file)

PathReadCameraPoses ==
    /\ call.fn = "read_operations"
    /\ ReadsDone < MaxReads
    /\ LET file == sqlite3_connect(CurrentFile)
       IN  ReaderOnPath("read_camera_poses_from_database",
                        read_camera_poses_from_database(file.store), file)

PathReadGlobalPoses ==
    /\ call.fn = "read_operations"
    /\ ReadsDone < MaxReads
    /\ LET file == sqlite3_connect(CurrentFile)
       IN  ReaderOnPath("read_global_poses_from_database",
                        read_global_poses_from_database(file.store), file)

\* ColmapDatabaseLoader.__init__ on the sqlite path: a missing file raises
\* FileNotFoundError before anything is opened.
PathLoaderInit ==
    /\ call.fn = "read_operations"
    /\ ReadsDone < MaxReads
    /\ ~LoaderOpen
    /\ ret' = IF ~CurrentFile.exists
              THEN [op |-> "ColmapDatabaseLoader", file |-> CurrentFile,
                    reads |-> ReadsDone + 1, loader |-> FALSE,
                    status |-> "raise"]
              ELSE [op |-> "ColmapDatabaseLoader",
                    file |-> sqlite3_connect(CurrentFile),
                    reads |-> ReadsDone + 1, loader |-> TRUE,
                    status |-> "ok"]
    /\ UNCHANGED <<call, openConns>>

\* A getter of an open loader reads through the loader's connection.
PathLoaderGetAllMatches ==
    /\ call.fn = "read_operations"
    /\ ReadsDone < MaxReads
    /\ LoaderOpen
    /\ ret' = [op |-> "get_all_matches", file |-> ret.file,
               reads |-> ReadsDone + 1, loader |-> TRUE,
               status |-> get_all_matches(ret.file.store).status]
    /\ UNCHANGED <<call, openConns>>

NextReads ==
    \/ PathReadDatabaseMatches
    \/ PathReadCameraPoses
    \/ PathReadGlobalPoses
    \/ PathLoaderInit
    \/ PathLoaderGetAllMatches

SpecReads == InitReads /\ [][NextReads]_vars

\* C24 as stated: after any sequence of read operations the store file is
\* as it was before the first of them: there or not, and with the same
\* tables and rows.
C24_ReadersLeaveStoreUnchanged ==
    (call.fn = "read_operations" /\ ret.op # "none")
    => ret.file = [exists |-> call.exists, store |-> call.store]

(***************************************************************************)
(* Feature text files                                                      *)
(*                                                                         *)
(* A features file is its lines, a line its characters.  A coordinate, a   *)
(* score or a descriptor entry is kept in units of its sixth decimal, the  *)
(* last one that f"{v:.6f}" writes.                                        *)
(***************************************************************************)

\* The unit of the first decimal place in units of the sixth.
MICRO == 1000000

\* Length of a descriptor (256 in the source).
DescDim == 2

\* Most keypoints of a features file.
MaxFeatures == 2

\* f"{v:.6f}": sign, integer part, point, six decimals.
Format6(v) ==
    LET a == IF v < 0 THEN 0 - v ELSE v
    IN  (IF v < 0 THEN <<"-">> ELSE <<>>)
        \o Decimal(a \div MICRO) \o <<".">>
        \o [k \in 1 .. 6 |-> Digits[((a \div (10 ^ (6 - k))) % 10) + 1]]

\* The position of the first point of a token, 0 without one.
PointAt(tok) ==
    IF \E i \in DOMAIN tok : tok[i] = "."
    THEN CHOOSE i \in DOMAIN tok :
             tok[i] = "." /\ \A j \in 1 .. (i - 1) : tok[j] # "."
    ELSE 0

\* float(tok) of a decimal literal with at most six decimals, as a nullable
\* value: optional minus sign, digits, optional point and digits, at least
\* one digit.  Any other token makes float() raise ValueError.
ParseFloat(tok) ==
    LET neg == Len(tok) > 0 /\ tok[1] = "-"
        body == IF neg THEN Tail(tok) ELSE tok
        dot == PointAt(body)
        whole == IF dot = 0 THEN body ELSE SubSeq(body, 1, dot - 1)
        frac == IF dot = 0 THEN <<>> ELSE SubSeq(body, dot + 1, Len(body))
        padded == frac \o [k \in 1 .. (6 - Len(frac)) |-> "0"]
    IN  IF /\ Len(whole) + Len(frac) > 0
           /\ Len(frac) <= 6
           /\ \A i \in DOMAIN whole : IsDigit(whole[i])
           /\ \A i \in DOMAIN frac : IsDigit(frac[i])
        THEN LET a == (IF Len(whole) = 0 THEN 0 ELSE DigitsValue(whole))
                          * MICRO + DigitsValue(padded)
             IN  Some(IF neg THEN 0 - a ELSE a)
        ELSE Null

\* save_features of method_img2features_plugin_superpoint: the count line,
\* then per keypoint x y 1.0 -1.0 score and the descriptor entries.
save_features(keypoints) ==
    <<Decimal(Len(keypoints))>>
    \o [i \in DOMAIN keypoints |->
          Join(<<Format6(keypoints[i].x), Format6(keypoints[i].y),
                 <<"1", ".", "0">>, <<"-", "1", ".", "0">>,
                 Format6(keypoints[i].score)>>
               \o [k \in DOMAIN keypoints[i].desc |->
                      Format6(keypoints[i].desc[k])])]

\* save_features of superpoint_extractor: per keypoint x y score and the
\* descriptor entries; no other line.
extractor_save_features(keypoints) ==
    [i \in DOMAIN keypoints |->
        Join(<<Format6(keypoints[i].x), Format6(keypoints[i].y),
               Format6(keypoints[i].score)>>
             \o [k \in DOMAIN keypoints[i].desc |->
                    Format6(keypoints[i].desc[k])])]

\* The loop of load_features_from_file over lines[i] for i in
\* range(from, to), in 0-based line numbers: a line of fewer than five
\* parts is passed over; a part that is not a number raises.
RECURSIVE LoadFeatureLines(_, _, _, _, _)
LoadFeatureLines(lines, from, to, features, descriptors) ==
    IF from >= to
    THEN [status |-> "ok", features |-> features,
          descriptors |-> descriptors]
    ELSE
    LET parts == Split(lines[from + 1])
        values == [k \in DOMAIN parts |-> ParseFloat(parts[k])]
    IN  IF Len(parts) < 5
        THEN LoadFeatureLines(lines, from + 1, to, features, descriptors)
        ELSE IF \E k \in DOMAIN values : IsNull(values[k])
        THEN Raise("ValueError")
        ELSE LoadFeatureLines(lines, from + 1, to,
                 Append(features, <<Val(values[1]), Val(values[2])>>),
                 IF Len(parts) > 5
                 THEN Append(descriptors,
                             [k \in 1 .. (Len(parts) - 5) |->
                                 Val(values[k + 5])])
                 ELSE descriptors)

\* load_features_from_file: no line gives two empty arrays; the first line
\* is the count, read by int(); any exception is caught and gives two
\* empty arrays.
load_features_from_file(lines) ==
    IF Len(lines) = 0
    THEN [features |-> <<>>, descriptors |-> <<>>, failed |-> FALSE]
    ELSE
    LET first == Split(lines[1])
    IN  IF Len(first) # 1 \/ ~IsNumber(first[1])
        THEN [features |-> <<>>, descriptors |-> <<>>, failed |-> TRUE]
        ELSE
        LET num_features == Number(first[1])
            loaded == LoadFeatureLines(lines, 1,
                          Min(num_features + 1, Len(lines)), <<>>, <<>>)
        IN  IF loaded.status = "raise"
            THEN [features |-> <<>>, descriptors |-> <<>>, failed |-> TRUE]
            ELSE [features |-> loaded.features,
                  descriptors |-> loaded.descriptors, failed |-> FALSE]

\* The keypoints an extraction hands to save_features.
FeatureKeypoints ==
    { [x |-> x, y |-> y, score |-> 5000, desc |-> desc] :
        x \in {0, 1500000}, y \in {2000000, 640250000},
        desc \in { [k \in 1 .. DescDim |-> k * 125000 - 250000],
                   [k \in 1 .. DescDim |-> 0] } }

RECURSIVE KeypointsOfLen(_)
KeypointsOfLen(n) ==
    IF n = 0 THEN { <<>> }
    ELSE { Append(kps, kp) : kps \in KeypointsOfLen(n - 1),
                             kp \in FeatureKeypoints }

\* An extraction by one of the two programs, and the load of its file.
FeatureCalls ==
    { [fn |-> fn, keypoints |-> kps] :
        fn \in {"method_img2features_plugin_superpoint",
                "superpoint_extractor"},
        kps \in UNION { KeypointsOfLen(n) : n \in 0 .. MaxFeatures } }

InitFeatures ==
    /\ call \in FeatureCalls
    /\ ret = NoRet
    /\ openConns = 0

SaveFeatures ==
    /\ call.fn = "method_img2features_plugin_superpoint"
    /\ ret.op = "none"
    /\ ret' = [op |-> "save_features",
               file |-> save_features(call.keypoints)]
    /\ UNCHANGED <<call, openConns>>

ExtractorSaveFeatures ==
    /\ call.fn = "superpoint_extractor"
    /\ ret.op = "none"
    /\ ret' = [op |-> "save_features",
               file |-> extractor_save_features(call.keypoints)]
    /\ UNCHANGED <<call, openConns>>

LoadFeaturesFromFile ==
    /\ call.fn \in {"method_img2features_plugin_superpoint",
                    "superpoint_extractor"}
    /\ ret.op = "save_features"
    /\ ret' = [op |-> "load_features_from_file", file |-> ret.file]
                 @@ load_features_from_file(ret.file)
    /\ UNCHANGED <<call, openConns>>

NextFeatures ==
    SaveFeatures \/ ExtractorSaveFeatures \/ LoadFeaturesFromFile

SpecFeatures == InitFeatures /\ [][NextFeatures]_vars

\* C25 as stated: a features file written by either save_features has the
\* feature count as its first line and one line per feature after it, and
\* load_features_from_file gives back the keypoints written, in order.
C25_FeatureFileInterface ==
    (ret.op = "load_features_from_file")
    => /\ Len(ret.file) = Len(call.keypoints) + 1
       /\ ret.file[1] = Decimal(Len(call.keypoints))
       /\ ret.features = [i \in DOMAIN call.keypoints |->
                             <<call.keypoints[i].x, call.keypoints[i].y>>]

\* C26 as stated: a run of export_camera_poses_from_db with --format json
\* or all that has poses to export ends normally with camera_poses.json
\* written: the cameras, the poses and the metadata block with its fixed
\* strings; with --format all the txt and csv files are written as well.
C26_StructuredExport ==
    (/\ ret.op = "export_camera_poses_from_db"
     /\ ret.pc = "done"
     /\ Len(ret.poses_data) > 0
     /\ call.format \in {"json", "all"})
    => /\ ret.exit = 0
       /\ "camera_poses.json" \in DOMAIN ret.files
       /\ ret.files["camera_poses.json"]
             = export_poses_json(ret.poses_data, ret.cameras).value
       /\ ret.files["camera_poses.json"].metadata.quaternion_format
             = "w,x,y,z"
       /\ call.format = "all"
             => {"camera_poses.txt", "camera_poses.csv"}
                   \subseteq DOMAIN ret.files

(***************************************************************************)
(* Matches of one pair through the loader                                  *)
(***************************************************************************)

\* A store with at most one matches row, and the two ids in either order.
GetMatchesCalls ==
    [fn : {"get_matches"},
     store : { m \in MatchStores : Len(m.matches) <= 1 },
     image_id1 : 1 .. 4, image_id2 : 1 .. 4]

InitMatches ==
    /\ call \in GetMatchesCalls
    /\ ret = NoRet
    /\ openConns = 0

GetMatches ==
    /\ call.fn = "get_matches"
    /\ ret.op = "none"
    /\ ret' = [op |-> "get_matches",
               forward |-> get_matches(call.store, call.image_id1,
                                       call.image_id2)]
    /\ UNCHANGED <<call, openConns>>

\* The same pair asked for with its ids in the other order.
GetMatchesReversed ==
    /\ call.fn = "get_matches"
    /\ ret.op = "get_matches"
    /\ ret' = [op |-> "get_matches_reversed", forward |-> ret.forward,
               reversed |-> get_matches(call.store, call.image_id2,
                                        call.image_id1)]
    /\ UNCHANGED <<call, openConns>>

NextMatches == GetMatches \/ GetMatchesReversed

SpecMatches == InitMatches /\ [][NextMatches]_vars

\* The index pairs a MatchInfo of (image_id1, image_id2) has to hold for
\* the stored row of the pair: a row is stored with the indices of the
\* image of the lower id in column 0.
AlignedIndexPairs(row, image_id1, image_id2) ==
    LET stored == StoredIndexPairs(row)
    IN  IF image_id1 <= image_id2 THEN stored
        ELSE [i \in DOMAIN stored |-> <<stored[i][2], stored[i][1]>>]

MatchInfoAligned(info) ==
    info.status = "ok"
    => info.matches =
          AlignedIndexPairs(
              Val(Lookup(call.store.matches, "pair_id",
                         image_ids_to_pair_id(info.image_id1,
                                              info.image_id2))),
              info.image_id1, info.image_id2)

\* C27 as stated: get_matches(a, b) and get_matches(b, a) read the same
\* stored row, and in each MatchInfo returned column 0 holds the keypoint
\* indices of its image_id1 and column 1 those of its image_id2.
C27_MatchInfoAlignment ==
    (call.fn = "get_matches" /\ ret.op = "get_matches_reversed")
    => /\ ret.forward.status = ret.reversed.status
       /\ MatchInfoAligned(ret.forward)
       /\ MatchInfoAligned(ret.reversed)

(***************************************************************************)
(* The registered count of the camera pose reader                          *)
(***************************************************************************)

\* C28 as stated: the registered count read_camera_poses_from_database
\* reports at its end is the number of returned poses whose is_registered
\* is true, and is at most the number of returned poses.
C28_RegisteredCountConsistent ==
    (ret.op = "read_camera_poses" /\ ret.status = "ok")
    => /\ ret.registered_count
             = Len(SelectSeq(ret.poses, LAMBDA pose : pose.is_registered))
       /\ ret.registered_count <= Len(ret.poses)

(***************************************************************************)
(* The reconstruction pipelines                                            *)
(*                                                                         *)
(* pycolmap and the glomap binary are outside the repository: what a step  *)
(* of them does (returns, raises, writes) is an input of the run.  ret     *)
(* holds the position of the pipeline, the steps run so far with their     *)
(* results, what the mapper has written and the value returned.            *)
(***************************************************************************)

\* colmap_feature_extractor and colmap_exhaustive_matcher: True unless the
\* pycolmap call raises.
colmap_feature_extractor(outcome) == outcome # "raise"

colmap_exhaustive_matcher(outcome) == outcome # "raise"

\* colmap_mapper: True when incremental_mapping returns a non-empty map of
\* models; False when it returns none or raises.
colmap_mapper(outcome) == outcome = "models"

\* run_glomap_command through glomap_mapper: True on return code 0; False
\* on another return code or when the binary is not found.
glomap_mapper(outcome) == outcome = "zero"

\* A pipeline that has just started, after its path checks.
Started(op, first) ==
    [op |-> op, pc |-> first, result |-> Null, steps |-> <<>>,
     produced |-> {}]

\* A pipeline that returns value from where it is.
Returned(r, value) == [r EXCEPT !.pc = "done", !.result = Some(value)]

\* A variant that goes on to the next step whatever the step returned.
AfterStep_goes_on(r, step, ok, next) ==
    [r EXCEPT !.pc = next, !.steps = Append(@, [step |-> step, ok |-> ok])]

\* `if not step(...): return False': a failed step ends the pipeline with
\* False, a successful one leads to the next step.
AfterStep(r, step, ok, next) ==
    IF ok
    THEN [r EXCEPT !.pc = next,
                   !.steps = Append(@, [step |-> step, ok |-> TRUE])]
    ELSE Returned([r EXCEPT !.steps = Append(@, [step |-> step,
                                                 ok |-> FALSE])], FALSE)

ModelFiles == {"cameras.txt", "images.txt", "points3D.txt"}

\* The runs of colmap_pipeline: the image folder exists or not, the output
\* folders can be made or not, what each pycolmap call does, and whether
\* the mapping has written the folder of model 0.
ColmapCalls ==
    [fn : {"colmap_pipeline"}, image_exists : BOOLEAN, mkdir_ok : BOOLEAN,
     extract : {"ok", "raise"}, match : {"ok", "raise"},
     map : {"models", "none", "raise"}, writes : {{}, {"0"}}]

\* The runs of glomap_pipeline: the database and the image folder exist or
\* not, what the glomap command does, and the model files it has written.
GlomapCalls ==
    [fn : {"glomap_pipeline"}, db_exists : BOOLEAN, image_exists : BOOLEAN,
     map : {"zero", "nonzero", "notfound"}, writes : SUBSET ModelFiles]

InitPipeline ==
    /\ call \in ColmapCalls \cup GlomapCalls
    /\ ret = NoRet
    /\ openConns = 0

\* colmap_pipeline up to its first step: a missing image path returns
\* False; an exception of mkdir is caught and returns False.
ColmapValidate ==
    /\ call.fn = "colmap_pipeline"
    /\ ret.op = "none"
    /\ ret' = IF ~call.image_exists \/ ~call.mkdir_ok
              THEN Returned(Started("colmap_pipeline", "extract"), FALSE)
              ELSE Started("colmap_pipeline", "extract")
    /\ UNCHANGED <<call, openConns>>

ColmapFeatureExtraction ==
    /\ ret.op = "colmap_pipeline"
    /\ ret.pc = "extract"
    /\ ret' = AfterStep(ret, "colmap_feature_extractor",
                        colmap_feature_extractor(call.extract), "match")
    /\ UNCHANGED <<call, openConns>>

ColmapFeatureMatching ==
    /\ ret.op = "colmap_pipeline"
    /\ ret.pc = "match"
    /\ ret' = AfterStep(ret, "colmap_exhaustive_matcher",
                        colmap_exhaustive_matcher(call.match), "map")
    /\ UNCHANGED <<call, openConns>>

ColmapReconstruction ==
    /\ ret.op = "colmap_pipeline"
    /\ ret.pc = "map"
    /\ ret' = AfterStep([ret EXCEPT !.produced =
                            IF call.map = "raise" THEN {} ELSE call.writes],
                        "colmap_mapper", colmap_mapper(call.map), "check")
    /\ UNCHANGED <<call, openConns>>

\* The check of the results: sparse/0 is looked for and its absence is
\* logged as a warning; the pipeline returns True either way.
ColmapCheckResults ==
    /\ ret.op = "colmap_pipeline"
    /\ ret.pc = "check"
    /\ ret' = Returned(ret, TRUE)
    /\ UNCHANGED <<call, openConns>>

\* glomap_pipeline up to the mapper: a missing database or image path
\* returns False.
GlomapValidate ==
    /\ call.fn = "glomap_pipeline"
    /\ ret.op = "none"
    /\ ret' = IF ~call.db_exists \/ ~call.image_exists
              THEN Returned(Started("glomap_pipeline", "map"), FALSE)
              ELSE Started("glomap_pipeline", "map")
    /\ UNCHANGED <<call, openConns>>

GlomapReconstruction ==
    /\ ret.op = "glomap_pipeline"
    /\ ret.pc = "map"
    /\ ret' = AfterStep([ret EXCEPT !.produced =
                            IF call.map = "notfound" THEN {}
                            ELSE call.writes],
                        "glomap_mapper", glomap_mapper(call.map), "check")
    /\ UNCHANGED <<call, openConns>>

\* The check of the results: the model files found are counted and none
\* found is logged as a warning; the pipeline returns True either way.
GlomapCheckResults ==
    /\ ret.op = "glomap_pipeline"
    /\ ret.pc = "check"
    /\ ret' = Returned(ret, TRUE)
    /\ UNCHANGED <<call, openConns>>

NextPipeline ==
    \/ ColmapValidate
    \/ ColmapFeatureExtraction
    \/ ColmapFeatureMatching
    \/ ColmapReconstruction
    \/ ColmapCheckResults
    \/ GlomapValidate
    \/ GlomapReconstruction
    \/ GlomapCheckResults

SpecPipeline == InitPipeline /\ [][NextPipeline]_vars

\* C29 as stated: colmap_pipeline returns True only if the folder of model
\* 0 was produced under sparse, and glomap_pipeline returns True only if at
\* least one of the three model files is in the output path.
C29_SuccessOnlyWithModel ==
    (ret.op \in {"colmap_pipeline", "glomap_pipeline"}
       /\ ret.result = Some(TRUE))
    => /\ ret.op = "colmap_pipeline" => "0" \in ret.produced
       /\ ret.op = "glomap_pipeline" => ret.produced \cap ModelFiles # {}

\* The steps of colmap_pipeline in their order.
ColmapSteps ==
    <<"colmap_feature_extractor", "colmap_exhaustive_matcher",
      "colmap_mapper">>

\* C30: in colmap_pipeline the steps run so far are the first ones of
\* extraction, matching, mapping, in this order; every step before the
\* last one run returned success; and once a step has failed the pipeline
\* has returned False, so that no later step runs.
C30_StepOrdering ==
    ret.op = "colmap_pipeline"
    => /\ Len(ret.steps) <= Len(ColmapSteps)
       /\ \A i \in DOMAIN ret.steps :
             /\ ret.steps[i].step = ColmapSteps[i]
             /\ i < Len(ret.steps) => ret.steps[i].ok
       /\ (\E i \in DOMAIN ret.steps : ~ret.steps[i].ok)
             => ret.pc = "done" /\ ret.result = Some(FALSE)

\* Feature extraction succeeded, matching failed, and the pipeline has
\* returned False without running the mapper.
C30_Witness ==
    /\ ret.op = "colmap_pipeline"
    /\ call.map = "models"
    /\ ret.steps = << [step |-> "colmap_feature_extractor", ok |-> TRUE],
                      [step |-> "colmap_exhaustive_matcher", ok |-> FALSE] >>
    /\ ret.pc = "done"
    /\ ret.result = Some(FALSE)
    /\ ret.produced = {}

====
